---- MODULE Spec2Model ----
(***************************************************************************)
(* A model of the step-based animation engine of the small-text crate:     *)
(* the repetition controller (repeatable/), the advance controller         *)
(* (advancable/) and the Animation that drives them (animation.rs); of the *)
(* text's static styling; of the button crate's ButtonWidget and of the    *)
(* small-spinner crate's SmallSpinnerWidget.                               *)
(*                                                                         *)
(* The specifications share the variables:                                 *)
(*   SpecCtl    drives an AdvancableAnimation directly through             *)
(*              current_step / next_step / advance;                        *)
(*   Spec       drives an Animation through next_frame / pause / unpause / *)
(*              advance / take_last_event while a monotonic clock ticks;   *)
(*   SpecEmpty  is Spec over the styles that have no step;                 *)
(*   SpecStep   applies steps to the symbols directly;                     *)
(*   SpecWidget drives a text widget (text/text.rs, animation/text.rs)     *)
(*              that owns the Animation.                                   *)
(*   SpecText   resolves the static styles of a text (create_symbols);     *)
(*   SpecButton drives a ButtonWidget through press / unpress / disable /  *)
(*              enable / on_crossterm_event;                               *)
(*   SpecSpinner renders and resets a SmallSpinnerWidget while the clock   *)
(*              ticks.                                                     *)
(***************************************************************************)
EXTENDS Integers, Sequences, FiniteSets, TLC

\* ------------------------------------------------------------- bounds
MaxSteps == 3        \* longest step list of a style
MaxIterations == 2   \* largest n of AnimationRepeatMode::Finite(n)
MaxTime == 4         \* the clock runs from 0 to MaxTime
MaxCalls == 106       \* controller calls counted under SpecCtl
NumSymbols == 3      \* positions 0 .. NumSymbols-1 given to Animation::new
NumVariants == 2     \* step-list families the styles are drawn from
MaxStride == 3       \* largest n of Every(n) / ExceptEvery(n) resolved
MaxHeight == 4       \* tallest area given to the button
MaxInterval == 2     \* longest finite interval of a spinner style
MaxRenders == 6      \* renders of a spinner that draw a symbol
InstantMax == 1000   \* the last Instant that can be represented
DurationMax == 1000  \* Duration::MAX
MaxEntries == 3      \* most entries of a text style's symbol_styles

\* ------------------------------------------------------------- options
None == [tag |-> "None"]
Some(v) == [tag |-> "Some", v |-> v]
Panic == [tag |-> "Panic"]

IsSome(o) == o.tag = "Some"

Min(a, b) == IF a <= b THEN a ELSE b

\* ------------------------------------------------------------- symbols
Symbol(value, fg, bg, modifier) ==
    [value |-> value, foreground_color |-> fg, background_color |-> bg,
     modifier |-> modifier]

DefaultSymbol == Symbol("a", "Reset", "Reset", {})

Positions == 0 .. (NumSymbols - 1)

\* ------------------------------------------------------------- targets
Single(x) == [kind |-> "Single", a |-> x, b |-> x]
Range(start, end) == [kind |-> "Range", a |-> start, b |-> end]
Untouched == [kind |-> "Untouched", a |-> 0, b |-> 0]
UntouchedThisStep == [kind |-> "UntouchedThisStep", a |-> 0, b |-> 0]
\* Every(n) is a variant Animation::resolve_target matches on; the enum of
\* style/target.rs does not list it.
Every(n) == [kind |-> "Every", a |-> n, b |-> n]
ExceptEvery(n) == [kind |-> "ExceptEvery", a |-> n, b |-> n]
\* AllExceptEvery(n) is the variant the text's resolve_target matches on.
AllExceptEvery(n) == [kind |-> "AllExceptEvery", a |-> n, b |-> n]

\* ------------------------------------------------------------- actions
UpdateCharacter(c) == [kind |-> "UpdateCharacter", arg |-> c]
UpdateForegroundColor(c) == [kind |-> "UpdateForegroundColor", arg |-> c]
UpdateBackgroundColor(c) == [kind |-> "UpdateBackgroundColor", arg |-> c]
AddModifier(m) == [kind |-> "AddModifier", arg |-> m]
RemoveModifier(m) == [kind |-> "RemoveModifier", arg |-> m]
RemoveAllModifiers == [kind |-> "RemoveAllModifiers", arg |-> "-"]

\* ------------------------------------------------------------- steps
\* actions: the HashMap<AnimationTarget, Vec<AnimationAction>> as a set of
\* entries with distinct targets; duration in clock units.
AnimationStep(actions, duration) == [actions |-> actions, duration |-> duration]

Entry(target, acts) == [target |-> target, acts |-> acts]

\* Single(0) bold, everything else white (first step of the round trip).
StepBold(d) ==
    AnimationStep({Entry(Single(0), <<AddModifier("BOLD")>>),
                   Entry(UntouchedThisStep, <<UpdateForegroundColor("White")>>)}, d)

\* Single(1) green, everything else white (second step of the round trip).
StepGreen(d) ==
    AnimationStep({Entry(Single(1), <<UpdateForegroundColor("Green")>>),
                   Entry(UntouchedThisStep, <<UpdateForegroundColor("White")>>)}, d)

\* A Range and an Untouched entry.
StepRange(d) ==
    AnimationStep({Entry(Range(0, 1), <<UpdateBackgroundColor("Blue")>>),
                   Entry(Untouched, <<AddModifier("ITALIC")>>)}, d)

\* Overlapping Single(2) and Every(2) entries that set the same attribute.
StepOverlap(d) ==
    AnimationStep({Entry(Single(2), <<UpdateForegroundColor("Green")>>),
                   Entry(Every(2), <<UpdateForegroundColor("Red")>>)}, d)

\* Every(2) and ExceptEvery(2) entries over the same position map.
StepPartition(d) ==
    AnimationStep({Entry(Every(2), <<UpdateBackgroundColor("Yellow")>>),
                   Entry(ExceptEvery(2), <<UpdateBackgroundColor("Black")>>)}, d)

\* A Range entry alone, both ends inside the text.
StepSpan(d) ==
    AnimationStep({Entry(Range(1, 2), <<UpdateForegroundColor("Cyan")>>)}, d)

\* A Range whose upper end is one past the last position of the text.
StepBeyond(d) ==
    AnimationStep({Entry(Range(NumSymbols - 1, NumSymbols),
                         <<UpdateForegroundColor("Magenta")>>)}, d)

\* An empty action map: a pure wait.
StepWait(d) == AnimationStep({}, d)

\* The i-th step (1-based) of the step list of family v.
StepAt(v, i) ==
    IF v = 1 THEN (IF i % 2 = 1 THEN StepBold(2) ELSE StepGreen(2))
    ELSE IF i % 3 = 1 THEN StepRange(1)
    ELSE IF i % 3 = 2 THEN StepBold(2)
    ELSE StepWait(0)

StepList(v, len) == [i \in 1 .. len |-> StepAt(v, i)]

Infinite == [kind |-> "Infinite", n |-> 0]
Finite(n) == [kind |-> "Finite", n |-> n]

RepeatModes == {Infinite} \cup {Finite(n) : n \in 0 .. MaxIterations}
AdvanceModes == {"Auto", "Manual"}

AnimationStyle(repeat_mode, advance_mode, steps) ==
    [repeat_mode |-> repeat_mode, advance_mode |-> advance_mode, steps |-> steps]

Styles ==
    {AnimationStyle(r, a, StepList(v, len)) :
        r \in RepeatModes, a \in AdvanceModes,
        v \in 1 .. NumVariants, len \in 1 .. MaxSteps}

\* The styles with no step at all.
EmptyStyles ==
    {AnimationStyle(r, a, <<>>) : r \in RepeatModes, a \in AdvanceModes}

\* The steps applied one at a time under SpecStep.
StepCatalogue ==
    {StepBold(2), StepGreen(2), StepRange(1), StepWait(0), StepOverlap(1), StepSpan(1),
     StepPartition(1), StepBeyond(1)}

\* ------------------------------------------------------------- helpers
\* u16/usize saturating_sub
SaturatingSub(a, b) == IF a >= b THEN a - b ELSE 0

\* steps.get(i).unwrap() on a 0-based index
GetUnwrap(steps, i) ==
    IF (i + 1) \in DOMAIN steps THEN Some(steps[i + 1]) ELSE Panic

\* The result of a &mut self method: the object afterwards and the value returned.
Result(self, ret) == [self |-> self, ret |-> ret]

\* ------------------------------------------- FinitelyRepeatableAnimation
\* new() that keeps max_iteration as given, without the saturating_sub(1).
Finitely_new_KeepsMax(steps, max_iteration) ==
    [kind |-> "Finitely", steps |-> steps, current_index |-> 0,
     max_iteration |-> max_iteration, current_iteration |-> 0]

Finitely_new(steps, max_iteration) ==
    [kind |-> "Finitely", steps |-> steps, current_index |-> 0,
     max_iteration |-> SaturatingSub(max_iteration, 1), current_iteration |-> 0]

\* current_step() without the end test: the last step stays current for ever.
Finitely_current_step_NeverNone(self) ==
    GetUnwrap(self.steps, self.current_index)

Finitely_current_step(self) ==
    LET iterations_limit_is_reached ==
            /\ self.current_index = SaturatingSub(Len(self.steps), 1)
            /\ self.current_iteration = self.max_iteration
    IN  IF iterations_limit_is_reached THEN None
        ELSE GetUnwrap(self.steps, self.current_index)

\* Finitely_next_step with the terminal case lost: the last step of the last
\* pass wraps around like any other pass.
Finitely_next_step_NeverEnds(self) ==
    LET at_last == self.current_index = SaturatingSub(Len(self.steps), 1)
    IN  IF ~at_last
        THEN LET s == [self EXCEPT !.current_index = @ + 1]
             IN  Result(s, GetUnwrap(s.steps, s.current_index))
        ELSE LET s == [self EXCEPT !.current_index = 0]
             IN  Result(s, GetUnwrap(s.steps, s.current_index))

Finitely_next_step(self) ==
    LET at_last == self.current_index = SaturatingSub(Len(self.steps), 1)
        at_max == self.current_iteration = self.max_iteration
    IN  IF ~at_last
        THEN LET s == [self EXCEPT !.current_index = @ + 1]
             IN  Result(s, GetUnwrap(s.steps, s.current_index))
        ELSE IF ~at_max
        THEN LET s == [self EXCEPT !.current_index = 0, !.current_iteration = @ + 1]
             IN  Result(s, GetUnwrap(s.steps, s.current_index))
        ELSE Result(self, None)

\* ----------------------------------------- InfinitelyRepeatableAnimation
Infinitely_new(steps) ==
    [kind |-> "Infinitely", steps |-> steps, current_index |-> 0,
     max_iteration |-> 0, current_iteration |-> 0]

Infinitely_current_step(self) == GetUnwrap(self.steps, self.current_index)

\* next_step() that never wraps: the index runs past the last step.
Infinitely_next_step_NoWrap(self) ==
    LET s == [self EXCEPT !.current_index = @ + 1]
    IN  Result(s, GetUnwrap(s.steps, s.current_index))

\* next_step() that wraps to the second step instead of the first.
Infinitely_next_step_WrapsToOne(self) ==
    LET s == IF self.current_index # SaturatingSub(Len(self.steps), 1)
             THEN [self EXCEPT !.current_index = @ + 1]
             ELSE [self EXCEPT !.current_index = Min(1, SaturatingSub(Len(self.steps), 1))]
    IN  Result(s, GetUnwrap(s.steps, s.current_index))

Infinitely_next_step(self) ==
    LET s == IF self.current_index # SaturatingSub(Len(self.steps), 1)
             THEN [self EXCEPT !.current_index = @ + 1]
             ELSE [self EXCEPT !.current_index = 0]
    IN  Result(s, GetUnwrap(s.steps, s.current_index))

\* --------------------------------------------------- RepeatableAnimation
Repeatable_new(steps, repeat_mode) ==
    IF repeat_mode.kind = "Finite" THEN Finitely_new(steps, repeat_mode.n)
    ELSE Infinitely_new(steps)

Repeatable_current_step(self) ==
    IF self.kind = "Finitely" THEN Finitely_current_step(self)
    ELSE Infinitely_current_step(self)

Repeatable_next_step(self) ==
    IF self.kind = "Finitely" THEN Finitely_next_step(self)
    ELSE Infinitely_next_step(self)

\* -------------------------------------- AutomaticallyAdvancableAnimation
Automatically_new(steps, repeat_mode) ==
    [kind |-> "Automatically", is_advanced |-> FALSE,
     repeatable_animation |-> Repeatable_new(steps, repeat_mode)]

Automatically_current_step(self) ==
    Repeatable_current_step(self.repeatable_animation)

Automatically_next_step(self) ==
    LET r == Repeatable_next_step(self.repeatable_animation)
    IN  Result([self EXCEPT !.repeatable_animation = r.self], r.ret)

\* ------------------------------------------ ManuallyAdvancableAnimation
Manually_new(steps, repeat_mode) ==
    [kind |-> "Manually", is_advanced |-> FALSE,
     repeatable_animation |-> Repeatable_new(steps, repeat_mode)]

\* current_step() that hands out the step at the index once advance() has
\* been called, the end of the last pass notwithstanding.
Manually_current_step_AdvanceRevives(self) ==
    IF self.is_advanced
    THEN GetUnwrap(self.repeatable_animation.steps,
                   self.repeatable_animation.current_index)
    ELSE Repeatable_current_step(self.repeatable_animation)

Manually_current_step(self) ==
    Repeatable_current_step(self.repeatable_animation)

\* Manually_next_step that forwards whether or not advance() was called.
Manually_next_step_Ungated(self) ==
    LET r == Repeatable_next_step(self.repeatable_animation)
    IN  Result([self EXCEPT !.is_advanced = FALSE,
                            !.repeatable_animation = r.self], r.ret)

\* Manually_next_step that never consumes the authorization.
Manually_next_step_KeepsFlag(self) ==
    IF ~self.is_advanced THEN Result(self, None)
    ELSE LET r == Repeatable_next_step(self.repeatable_animation)
         IN  Result([self EXCEPT !.repeatable_animation = r.self], r.ret)

Manually_next_step(self) ==
    IF ~self.is_advanced THEN Result(self, None)
    ELSE LET r == Repeatable_next_step(self.repeatable_animation)
         IN  Result([self EXCEPT !.is_advanced = FALSE,
                                 !.repeatable_animation = r.self], r.ret)

\* advance() that takes the next step itself instead of only setting the flag.
Manually_advance_Steps(self) ==
    [Manually_next_step_Ungated(self).self EXCEPT !.is_advanced = TRUE]

Manually_advance(self) == [self EXCEPT !.is_advanced = TRUE]

\* --------------------------------------------------- AdvancableAnimation
Advancable_new(steps, repeat_mode, advance_mode) ==
    IF advance_mode = "Manual" THEN Manually_new(steps, repeat_mode)
    ELSE Automatically_new(steps, repeat_mode)

Advancable_current_step(self) ==
    IF self.kind = "Manually" THEN Manually_current_step(self)
    ELSE Automatically_current_step(self)

Advancable_next_step(self) ==
    IF self.kind = "Manually" THEN Manually_next_step(self)
    ELSE Automatically_next_step(self)

\* advance() that, under Auto, takes the next step at once.
Advancable_advance_StepsAuto(self) ==
    IF self.kind = "Manually" THEN Manually_advance(self)
    ELSE Automatically_next_step(self).self

Advancable_advance(self) ==
    IF self.kind = "Manually" THEN Manually_advance(self) ELSE self

\* ------------------------------------------------- animation_targets_sorter
TargetPriority(target) ==
    CASE target.kind = "Single" -> 3
      [] target.kind = "Range" -> 2
      [] target.kind = "Untouched" -> 1
      [] OTHER -> 0

\* The comparator process_step sorts with, animation_target_sorter, is not
\* among the sources. For the targets animation_targets_sorter knows it is
\* that function; Every is ranked as the specification (4.2) ranks it, below
\* Range and above Untouched, and ExceptEvery right below Every, which is
\* also where targets_sorter of text/text.rs puts them. The ranks are
\* multiplied by four to make room.
TargetRank(target) ==
    IF target.kind = "Every" THEN 4 * TargetPriority(Range(0, 0)) - 1
    ELSE IF target.kind = "ExceptEvery" THEN 4 * TargetPriority(Range(0, 0)) - 2
    ELSE 4 * TargetPriority(target)

\* The sort with the comparison turned round: highest rank first.
SortedActions_Descending(step) ==
    LET n == Cardinality(step.actions)
    IN  {order \in [1 .. n -> step.actions] :
            /\ \A i, j \in 1 .. n : i # j => order[i] # order[j]
            /\ \A i, j \in 1 .. n :
                 i < j => TargetRank(order[i].target) >= TargetRank(order[j].target)}

\* actions.sort_by(sorter) on the entries of the step's HashMap: a stable
\* ascending sort of an arbitrary iteration order, so every arrangement of the
\* entries whose priorities never decrease is a possible outcome.
SortedActions(step) ==
    LET n == Cardinality(step.actions)
    IN  {order \in [1 .. n -> step.actions] :
            /\ \A i, j \in 1 .. n : i # j => order[i] # order[j]
            /\ \A i, j \in 1 .. n :
                 i < j => TargetRank(order[i].target) <= TargetRank(order[j].target)}

\* ------------------------------------------------- SymbolState conversions
Styled(symbol) == [tag |-> "Styled", symbol |-> symbol]
Initial(symbol) == [tag |-> "Initial", symbol |-> symbol]
UntouchedState(symbol) == [tag |-> "Untouched", symbol |-> symbol]

\* impl Into<StepSymbolState> for SymbolState
IntoStepSymbolState(state) ==
    IF state.tag = "Styled" THEN UntouchedState(state.symbol)
    ELSE Initial(state.symbol)

\* The conversion back with Untouched taken for Initial: a symbol styled by
\* an earlier step and not by this one counts as never styled.
IntoSymbolState_UntouchedIsInitial(state) ==
    IF state.tag = "Styled" THEN Styled(state.symbol)
    ELSE Initial(state.symbol)

\* impl Into<SymbolState> for StepSymbolState
IntoSymbolState(state) ==
    IF state.tag = "Initial" THEN Initial(state.symbol)
    ELSE Styled(state.symbol)

is_symbol_untouched(state) == state.tag = "Untouched"

is_symbol_untouched_this_step(state) == state.tag \in {"Initial", "Untouched"}

\* ------------------------------------------------- Animation: applying a step
\* The orders step_states.iter() can yield the keys of the HashMap in: any
\* arrangement of them. An arrangement is a bijection iter on the keys:
\* iter[x] is the key yielded at the place x has in ascending order.
HashOrders(step_states) == Permutations(DOMAIN step_states)

\* The 0-based place of key x in the ascending order of the keys.
Rank(x, step_states) == Cardinality({y \in DOMAIN step_states : y < x})

\* The orders that can make a difference to the step: only Every and
\* ExceptEvery iterate the HashMap itself; without such an entry one order
\* stands for all.
IterOrders(step, step_states) ==
    IF \E e \in step.actions : e.target.kind \in {"Every", "ExceptEvery"}
    THEN HashOrders(step_states)
    ELSE {CHOOSE iter \in HashOrders(step_states) : TRUE}

\* resolve_target with ExceptEvery(n) filtering on the key itself instead of
\* on the key's place in the iteration.
resolve_target_ExceptByKey(target, step_states, iter) ==
    CASE target.kind = "Single" -> {target.a}
      [] target.kind = "Range" -> target.a .. target.b
      [] target.kind = "Every" ->
            {iter[x] : x \in {y \in DOMAIN step_states :
                                   Rank(y, step_states) % target.a = 0}}
      [] target.kind = "ExceptEvery" ->
            {x \in DOMAIN step_states : x % target.a # 0}
      [] target.kind = "Untouched" ->
            {x \in DOMAIN step_states : is_symbol_untouched(step_states[x])}
      [] OTHER ->
            {x \in DOMAIN step_states : is_symbol_untouched_this_step(step_states[x])}

\* resolve_target with Range(start, end) taken as start..end, the end left out.
resolve_target_HalfOpen(target, step_states, iter) ==
    CASE target.kind = "Single" -> {target.a}
      [] target.kind = "Range" -> target.a .. (target.b - 1)
      [] target.kind = "Every" ->
            {iter[x] : x \in {y \in DOMAIN step_states :
                                   Rank(y, step_states) % target.a = 0}}
      [] target.kind = "ExceptEvery" ->
            {iter[x] : x \in {y \in DOMAIN step_states :
                                   Rank(y, step_states) % target.a # 0}}
      [] target.kind = "Untouched" ->
            {x \in DOMAIN step_states : is_symbol_untouched(step_states[x])}
      [] OTHER ->
            {x \in DOMAIN step_states : is_symbol_untouched_this_step(step_states[x])}

\* iter: the order in which step_states.iter() yields the keys; step_by(n)
\* keeps the keys yielded at the places 0, n, 2n, ...
resolve_target(target, step_states, iter) ==
    CASE target.kind = "Single" -> {target.a}
      [] target.kind = "Range" -> target.a .. target.b
      [] target.kind = "Every" ->
            {iter[x] : x \in {y \in DOMAIN step_states :
                                   Rank(y, step_states) % target.a = 0}}
      [] target.kind = "ExceptEvery" ->
            {iter[x] : x \in {y \in DOMAIN step_states :
                                   Rank(y, step_states) % target.a # 0}}
      [] target.kind = "Untouched" ->
            {x \in DOMAIN step_states : is_symbol_untouched(step_states[x])}
      [] OTHER ->
            {x \in DOMAIN step_states : is_symbol_untouched_this_step(step_states[x])}

execute_action(symbol, action) ==
    CASE action.kind = "UpdateCharacter" -> [symbol EXCEPT !.value = action.arg]
      [] action.kind = "UpdateForegroundColor" ->
            [symbol EXCEPT !.foreground_color = action.arg]
      [] action.kind = "UpdateBackgroundColor" ->
            [symbol EXCEPT !.background_color = action.arg]
      [] action.kind = "AddModifier" ->
            [symbol EXCEPT !.modifier = @ \cup {action.arg}]
      [] action.kind = "RemoveModifier" ->
            [symbol EXCEPT !.modifier = @ \ {action.arg}]
      [] OTHER -> [symbol EXCEPT !.modifier = {}]

RECURSIVE ApplyActions(_, _, _)
ApplyActions(symbol, actions, i) ==
    IF i > Len(actions) THEN symbol
    ELSE ApplyActions(execute_action(symbol, actions[i]), actions, i + 1)

\* step_states.get_mut(&x).unwrap() panics on a position the map lacks.
execute_actions(x_coords, step_states, actions) ==
    IF ~(x_coords \subseteq DOMAIN step_states) THEN Panic
    ELSE Some([x \in DOMAIN step_states |->
                 IF x \in x_coords
                 THEN Styled(ApplyActions(step_states[x].symbol, actions, 1))
                 ELSE step_states[x]])

RECURSIVE ApplyEntries(_, _, _, _)
ApplyEntries(step_states, order, iter, i) ==
    IF i > Len(order) THEN Some(step_states)
    ELSE LET x_coords == resolve_target(order[i].target, step_states, iter)
             r == execute_actions(x_coords, step_states, order[i].acts)
         IN  IF r = Panic THEN Panic ELSE ApplyEntries(r.v, order, iter, i + 1)

\* The positions the entries of `order` resolve to, one entry after the
\* other, each on the step states the entries before it have left.
RECURSIVE Targeted(_, _, _, _)
Targeted(step_states, order, iter, i) ==
    IF i > Len(order) THEN {}
    ELSE LET x_coords == resolve_target(order[i].target, step_states, iter)
             r == execute_actions(x_coords, step_states, order[i].acts)
         IN  IF r = Panic THEN x_coords
             ELSE x_coords \cup Targeted(r.v, order, iter, i + 1)

\* The symbol states after process_step with the entries taken in `order`
\* and the position map iterated in the order `iter`.
process_step(states, order, iter) ==
    LET step_states == [x \in DOMAIN states |-> IntoStepSymbolState(states[x])]
        r == ApplyEntries(step_states, order, iter, 1)
    IN  IF r = Panic THEN Panic
        ELSE Some([x \in DOMAIN states |-> IntoSymbolState(r.v[x])])

\* make_frame that leaves out the positions still in their Initial state.
make_frame_StyledOnly(states) ==
    [x \in {y \in DOMAIN states : states[y].tag = "Styled"} |-> states[x].symbol]

make_frame(states) == [x \in DOMAIN states |-> states[x].symbol]

\* ------------------------------------------------------------- state
VARIABLES
    advancable_animation,   \* Animation.advancable_animation (both controllers)
    symbol_states,          \* Animation.symbol_states: position -> SymbolState
    is_paused,              \* Animation.is_paused
    last_step_retrieved_at, \* Animation.last_step_retrieved_at: Option<Instant>
    last_event,             \* Animation.last_event: Option<AnimationEvent>
    panicked,               \* an unwrap() failed: the program has aborted
    clock,                  \* Instant::now(), a monotonic clock
    style_repeat_mode,      \* the repeat mode of the style given to Animation::new
    \* history of the Animation calls
    ret,                    \* what the last next_frame() returned (None before any)
    called,                 \* next_frame() has been called at least once
    moved,                  \* the last next_frame() got a new step from the controller
    shownAt,                \* when the current step was first retrieved
    resumedAt,              \* when unpause() last ended a pause of the current step
    advancedSince,          \* advance() was called since the last step change
    calledWhilePaused,      \* next_frame() returned a frame during the present pause
    spacedFrames,           \* frames returned so far while every call was unpaused and
                            \* came at least the step duration after the step was
                            \* retrieved; -1 once a call was not
    nones,                  \* next_frame() calls that have returned None: 0, 1,
                            \* or 2 for two and more
    \* history of the direct controller calls
    ctl_op,                 \* the last of new / next_step / advance
    ctl_ret,                \* what the last current_step() or next_step() returned
    calls,                  \* next_step() calls made
    somes,                  \* next_step() calls that returned Some
    exhausted,              \* the repetition controller's next_step() has
                            \* returned None
    firstRet,               \* what the first next_step() call returned
    twin,                   \* a second advance controller, built from the same
                            \* steps with Finite(0) in place of Finite(1) and
                            \* Finite(1) in place of Finite(0), given the same calls
    twin_ret,               \* what the twin returned at the last call
    \* history of the direct step applications
    applied,                \* the step applied last
    targeted,               \* the positions its entries resolved to
    \* the text widget that owns the Animation
    widget,                 \* which widget: "SmallTextWidget" or
                            \* "AnimatedSmallTextWidget"
    symbols,                \* the text's symbols: position -> Symbol
    animation_is_active,    \* active_animation.is_some(); the Animation it
                            \* holds is the one of the variables above
    buf,                    \* the cells the last render painted
    \* history of the widget calls
    key,                    \* Some(k) when the latest widget call was
                            \* enable_animation(k), None otherwise
    replaced,               \* an enable_animation(key) has replaced an
                            \* animation that had produced a frame
    ended,                  \* a render has had None from next_frame() of the
                            \* animation enabled last
    calledAfterEnd,         \* a later render has called next_frame() of that
                            \* animation again
    \* the ButtonWidget
    status,                 \* ButtonWidget.status
    buttons,                \* the four StyledButtons: status -> "Thick" or "Thin"
    is_spinner_enabled,     \* LoadingLine.is_spinner_enabled of the buttons' lines
    \* history of the button calls
    button_op,              \* the ButtonWidget operation performed last
    event,                  \* Some(event) when that operation was
                            \* on_crossterm_event(event, widget_area)
    widget_area,            \* Some(widget_area) likewise
    button_ret,             \* what on_crossterm_event returned then
    \* the SmallSpinnerWidget
    symbol_cycle,           \* SmallSpinnerWidget.symbol_cycle: symbols, current_index
    spinner_style,          \* SmallSpinnerWidget.style: interval, alignment
    last_rendered_at,       \* SmallSpinnerWidget.last_rendered_at: Option<Instant>
    cell,                   \* the cell the last render wrote: Some([x, symbol])
    \* history of the spinner calls
    renders,                \* renders that drew a symbol since new
    reset_phase,            \* "Never": no reset() yet; "Pending": reset() was
                            \* called and no render has drawn since;
                            \* "Done": a render has drawn since the last reset()
    \* SmallTextWidget::new as a function of the text style
    symbol_styles,          \* SmallTextStyle.symbol_styles: a set of (target, style)
    created                 \* Some(symbols) once create_symbols has run

code_vars == <<advancable_animation, symbol_states, is_paused,
               last_step_retrieved_at, last_event, panicked>>
anim_hist == <<ret, called, moved, shownAt, resumedAt, advancedSince,
               calledWhilePaused, spacedFrames, nones>>
ctl_hist == <<ctl_op, ctl_ret, calls, somes, exhausted, firstRet, twin, twin_ret>>
step_hist == <<applied, targeted>>
widget_vars == <<widget, symbols, animation_is_active, buf>>
widget_hist == <<key, replaced, ended, calledAfterEnd>>
button_vars == <<status, buttons, is_spinner_enabled>>
button_hist == <<button_op, event, widget_area, button_ret>>
spinner_vars == <<symbol_cycle, spinner_style, last_rendered_at, cell>>
spinner_hist == <<renders, reset_phase>>
text_vars == <<symbol_styles, created>>
other_vars == <<button_vars, button_hist, spinner_vars, spinner_hist, text_vars>>
vars == <<code_vars, clock, style_repeat_mode, anim_hist, ctl_hist, step_hist,
          widget_vars, widget_hist, other_vars>>

rep == advancable_animation.repeatable_animation
steps == rep.steps
position == <<rep.current_index, rep.current_iteration>>

\* ------------------------------------------------------------- Animation::new
Animation_new(style) ==
    /\ advancable_animation =
          Advancable_new(style.steps, style.repeat_mode, style.advance_mode)
    /\ symbol_states = [x \in Positions |-> Initial(DefaultSymbol)]
    /\ is_paused = FALSE
    /\ last_step_retrieved_at = None
    /\ last_event = None
    /\ panicked = FALSE

\* The repeat mode the twin controller is built with.
Counterpart(repeat_mode) ==
    IF repeat_mode = Finite(0) THEN Finite(1)
    ELSE IF repeat_mode = Finite(1) THEN Finite(0)
    ELSE repeat_mode

\* The static styling of the text: every symbol carries the style given for
\* Target::Untouched.
TextSymbols == [x \in Positions |-> Symbol("a", "Blue", "Gray", {"UNDERLINED"})]

\* A cell of the buffer no render has painted yet.
BlankCell == Symbol(" ", "Reset", "Reset", {})

\* SmallTextWidget::new and AnimatedSmallTextWidget::new: the text's symbols,
\* no active animation, nothing painted.
Widget_new(kind) ==
    /\ widget = kind
    /\ symbols = TextSymbols
    /\ animation_is_active = FALSE
    /\ buf = [x \in Positions |-> BlankCell]
    /\ key = None
    /\ replaced = FALSE
    /\ ended = FALSE
    /\ calledAfterEnd = FALSE

\* ButtonWidget::new: one StyledButton per status, Thick when the style of the
\* status has a thickness and Thin when it has none; the status is Normal and
\* no line shows its spinner.
ButtonStyle(normal, hovered, pressed, disabled) ==
    [Normal |-> normal, Hovered |-> hovered, Pressed |-> pressed,
     Disabled |-> disabled]

ButtonStyles ==
    {ButtonStyle("Thick", "Thick", "Thick", "Thick"),
     ButtonStyle("Thin", "Thin", "Thin", "Thin"),
     ButtonStyle("Thin", "Thick", "Thin", "Thick")}

ButtonWidget_new(style) ==
    /\ status = "Normal"
    /\ buttons = style
    /\ is_spinner_enabled = FALSE
    /\ button_op = "new"
    /\ event = None
    /\ widget_area = None
    /\ button_ret = None

\* SymbolCycle::new: the symbols of the spinner type, from the first one.
\* The Canadian cycle shows one symbol twice. Glyphs outside ASCII are written
\* by name.
SymbolCycle_new(type_) ==
    [symbols |->
         CASE type_ = "Ascii" -> <<"|", "/", "-", "\\">>
           [] type_ = "MoonPhases" -> <<"new", "crescent", "half", "gibbous", "full">>
           [] type_ = "Canadian" -> <<"i", "o", "e", "o">>,
     current_index |-> 0]

\* SmallSpinnerWidget::new: nothing rendered yet.
SmallSpinnerWidget_new(style) ==
    /\ symbol_cycle = SymbolCycle_new(style.type_)
    /\ spinner_style = [interval |-> style.interval, alignment |-> style.alignment]
    /\ last_rendered_at = None
    /\ cell = None
    /\ renders = 0
    /\ reset_phase = "Never"

\* A text style whose symbols have not been created yet.
SmallTextStyle_given(styles) ==
    /\ symbol_styles = styles
    /\ created = None

\* The widgets a specification does not exercise stay as constructed.
OthersRest ==
    /\ ButtonWidget_new(ButtonStyle("Thick", "Thick", "Thick", "Thick"))
    /\ SmallSpinnerWidget_new([type_ |-> "Ascii", interval |-> 0, alignment |-> "Left"])
    /\ SmallTextStyle_given({})

\* The state after Animation::new on a style of style_set, before any call.
AnimationInit(style_set) ==
    /\ \E style \in style_set :
          /\ Animation_new(style)
          /\ twin = Advancable_new(style.steps, Counterpart(style.repeat_mode),
                                   style.advance_mode)
          /\ style_repeat_mode = style.repeat_mode
    /\ clock = 0
    /\ ret = None
    /\ called = FALSE
    /\ moved = FALSE
    /\ shownAt = None
    /\ resumedAt = None
    /\ advancedSince = FALSE
    /\ calledWhilePaused = FALSE
    /\ spacedFrames = 0
    /\ nones = 0
    /\ ctl_op = "new"
    /\ ctl_ret = None
    /\ calls = 0
    /\ somes = 0
    /\ exhausted = FALSE
    /\ firstRet = None
    /\ twin_ret = None
    /\ applied = None
    /\ targeted = {}

\* An Animation no widget owns: the widget variables rest.
InitOf(style_set) ==
    AnimationInit(style_set) /\ Widget_new("SmallTextWidget") /\ OthersRest

Init == InitOf(Styles)

\* ------------------------------------------------------------- Animation::next_step
\* self: the advance controller; returns it afterwards, the step to show and
\* whether that step is a new one handed out by the controller.
Animation_next_step(self, now, retrieved_at) ==
    LET current_step == Advancable_current_step(self)
    IN  IF ~IsSome(current_step)
        THEN [self |-> self, ret |-> current_step, moved |-> FALSE]
        ELSE IF now - retrieved_at >= current_step.v.duration
        THEN LET r == Advancable_next_step(self)
             IN  IF IsSome(r.ret)
                 THEN [self |-> r.self, ret |-> r.ret, moved |-> TRUE]
                 ELSE [self |-> r.self, ret |-> current_step, moved |-> FALSE]
        ELSE [self |-> self, ret |-> current_step, moved |-> FALSE]

\* ChooseStep with the is_paused branch left out: a paused call is served
\* like an unpaused one.
ChooseStep_IgnoresPause ==
    IF last_step_retrieved_at = None
    THEN [self |-> advancable_animation, moved |-> FALSE,
          ret |-> Advancable_current_step(advancable_animation),
          at |-> Some(clock), event |-> last_event]
    ELSE LET r == Animation_next_step(advancable_animation, clock,
                                      last_step_retrieved_at.v)
         IN  [self |-> r.self, moved |-> r.moved, ret |-> r.ret,
              at |-> Some(clock), event |-> Some("FrameGenerated")]

\* The branch of next_frame that chooses the step.
ChooseStep ==
    IF is_paused
    THEN [self |-> advancable_animation, moved |-> FALSE,
          ret |-> Advancable_current_step(advancable_animation),
          at |-> last_step_retrieved_at, event |-> last_event]
    ELSE IF last_step_retrieved_at = None
    THEN [self |-> advancable_animation, moved |-> FALSE,
          ret |-> Advancable_current_step(advancable_animation),
          at |-> Some(clock), event |-> last_event]
    ELSE LET r == Animation_next_step(advancable_animation, clock,
                                      last_step_retrieved_at.v)
         IN  [self |-> r.self, moved |-> r.moved, ret |-> r.ret,
              at |-> Some(clock), event |-> Some("FrameGenerated")]

\* Whether this call comes unpaused, under AdvanceMode::Auto, and at least the
\* current step's duration after that step was first retrieved.
WellSpaced(current_step) ==
    /\ ~is_paused
    /\ advancable_animation.kind = "Automatically"
    /\ IF shownAt = None THEN TRUE
       ELSE IF IsSome(current_step) THEN clock - shownAt.v >= current_step.v.duration
       ELSE TRUE

\* ------------------------------------------------------------- Animation::next_frame
Animation_next_frame ==
    /\ ~panicked
    /\ LET c == ChooseStep
           before == Advancable_current_step(advancable_animation)
       IN  /\ advancable_animation' = c.self
           /\ last_step_retrieved_at' = c.at
           /\ is_paused' = is_paused
           /\ clock' = clock
           /\ called' = TRUE
           /\ nones' = IF c.ret = None THEN Min(nones + 1, 2) ELSE nones
           /\ moved' = c.moved
           /\ advancedSince' = IF c.moved THEN FALSE ELSE advancedSince
           /\ resumedAt' = IF c.moved THEN None ELSE resumedAt
           /\ UNCHANGED <<style_repeat_mode, ctl_hist, step_hist>>
           /\ IF c.ret = Panic
              THEN /\ panicked' = TRUE
                   /\ UNCHANGED <<symbol_states, last_event, ret, shownAt,
                                  calledWhilePaused, spacedFrames>>
              ELSE IF c.ret = None
              THEN /\ last_event' = Some("Ended")
                   /\ ret' = None
                   /\ UNCHANGED <<symbol_states, panicked, shownAt,
                                  calledWhilePaused, spacedFrames>>
              ELSE \E order \in SortedActions(c.ret.v) :
                   \E iter \in IterOrders(c.ret.v, symbol_states) :
                     LET new_states == process_step(symbol_states, order, iter)
                     IN  IF new_states = Panic
                         THEN /\ panicked' = TRUE
                              /\ last_event' = c.event
                              /\ UNCHANGED <<symbol_states, ret, shownAt,
                                             calledWhilePaused, spacedFrames>>
                         ELSE /\ symbol_states' = new_states.v
                              /\ last_event' = c.event
                              /\ panicked' = FALSE
                              /\ ret' = Some(make_frame(new_states.v))
                              /\ shownAt' = IF c.moved THEN Some(clock)
                                            ELSE IF shownAt = None THEN Some(clock)
                                            ELSE shownAt
                              /\ calledWhilePaused' = is_paused
                              /\ spacedFrames' =
                                   IF spacedFrames = -1 THEN -1
                                   ELSE IF WellSpaced(before) THEN spacedFrames + 1
                                   ELSE -1

\* ------------------------------------------------------------- Animation::pause
Animation_pause ==
    /\ ~panicked
    /\ is_paused' = TRUE
    /\ calledWhilePaused' = IF is_paused THEN calledWhilePaused ELSE FALSE
    /\ UNCHANGED <<advancable_animation, symbol_states, last_step_retrieved_at,
                   last_event, panicked, clock, ret, called, moved, shownAt,
                   resumedAt, advancedSince, spacedFrames, nones, style_repeat_mode, ctl_hist, step_hist>>

\* ------------------------------------------------------------- Animation::unpause
Animation_unpause ==
    /\ ~panicked
    /\ is_paused' = FALSE
    /\ calledWhilePaused' = FALSE
    /\ resumedAt' = IF is_paused THEN Some(clock) ELSE resumedAt
    /\ UNCHANGED <<advancable_animation, symbol_states, last_step_retrieved_at,
                   last_event, panicked, clock, ret, called, moved, shownAt,
                   advancedSince, spacedFrames, nones, style_repeat_mode, ctl_hist, step_hist>>

\* ------------------------------------------------------------- Animation::advance
Animation_advance ==
    /\ ~panicked
    /\ advancable_animation' = Advancable_advance(advancable_animation)
    /\ advancedSince' = TRUE
    /\ UNCHANGED <<symbol_states, is_paused, last_step_retrieved_at, last_event,
                   panicked, clock, ret, called, moved, shownAt, resumedAt,
                   calledWhilePaused, spacedFrames, nones, style_repeat_mode, ctl_hist, step_hist>>

\* ------------------------------------------------------------- Animation::take_last_event
\* self.last_event.take(): hands out the event and leaves None behind.
Animation_take_last_event ==
    /\ ~panicked
    /\ last_event # None
    /\ last_event' = None
    /\ UNCHANGED <<advancable_animation, symbol_states, is_paused, last_step_retrieved_at,
                   panicked, clock, style_repeat_mode, anim_hist, ctl_hist, step_hist>>

\* ------------------------------------------------------------- the Animation driven directly
\* The calls made on an Animation that no widget owns.
NextFrame == Animation_next_frame /\ UNCHANGED <<widget_vars, widget_hist, other_vars>>

Pause == Animation_pause /\ UNCHANGED <<widget_vars, widget_hist, other_vars>>

Unpause == Animation_unpause /\ UNCHANGED <<widget_vars, widget_hist, other_vars>>

Advance == Animation_advance /\ UNCHANGED <<widget_vars, widget_hist, other_vars>>

TakeLastEvent == Animation_take_last_event /\ UNCHANGED <<widget_vars, widget_hist, other_vars>>

\* ------------------------------------------------------------- the clock
Tick ==
    /\ clock < MaxTime
    /\ clock' = clock + 1
    /\ UNCHANGED <<code_vars, style_repeat_mode, anim_hist, ctl_hist, step_hist,
                   widget_vars, widget_hist, other_vars>>

Next == NextFrame \/ Pause \/ Unpause \/ Advance \/ TakeLastEvent \/ Tick

Spec == Init /\ [][Next]_vars

\* ------------------------------------------------- animations without steps
InitEmpty == InitOf(EmptyStyles)

SpecEmpty == InitEmpty /\ [][Next]_vars

\* ------------------------------------------------- direct controller calls
CtlCurrentStep ==
    /\ ctl_ret' = Advancable_current_step(advancable_animation)
    /\ twin_ret' = Advancable_current_step(twin)
    /\ UNCHANGED <<code_vars, clock, style_repeat_mode, anim_hist, ctl_op, calls, somes,
                   exhausted, firstRet, twin, step_hist, widget_vars, widget_hist, other_vars>>

\* Whether next_step() of the advance controller reaches next_step() of the
\* repetition controller: always under Auto, with the flag set under Manual.
RepetitionAsked ==
    IF advancable_animation.kind = "Manually" THEN advancable_animation.is_advanced
    ELSE TRUE

CtlNextStep ==
    /\ calls < MaxCalls
    /\ LET r == Advancable_next_step(advancable_animation)
       IN  /\ advancable_animation' = r.self
           /\ ctl_ret' = r.ret
           /\ somes' = IF IsSome(r.ret) THEN somes + 1 ELSE somes
           /\ exhausted' = IF RepetitionAsked /\ r.ret = None THEN TRUE ELSE exhausted
           /\ firstRet' = IF calls = 0 THEN r.ret ELSE firstRet
    /\ LET t == Advancable_next_step(twin)
       IN  /\ twin' = t.self
           /\ twin_ret' = t.ret
    /\ calls' = calls + 1
    /\ ctl_op' = "next_step"
    /\ UNCHANGED <<symbol_states, is_paused, last_step_retrieved_at, last_event,
                   panicked, clock, style_repeat_mode, anim_hist, step_hist,
                   widget_vars, widget_hist, other_vars>>

CtlAdvance ==
    /\ advancable_animation' = Advancable_advance(advancable_animation)
    /\ twin' = Advancable_advance(twin)
    /\ ctl_op' = "advance"
    /\ UNCHANGED <<symbol_states, is_paused, last_step_retrieved_at, last_event,
                   panicked, clock, style_repeat_mode, anim_hist, ctl_ret, calls, somes,
                   exhausted, firstRet, twin_ret, step_hist, widget_vars, widget_hist, other_vars>>

NextCtl == CtlCurrentStep \/ CtlNextStep \/ CtlAdvance

SpecCtl == Init /\ [][NextCtl]_vars

\* ------------------------------------------------- direct step applications
\* The part of next_frame that follows the choice of the step, with the step
\* as the input: process_step(step), then make_frame(). Any sequence of steps
\* is the step list of some style.
ProcessStep ==
    /\ ~panicked
    /\ \E step \in StepCatalogue :
       \E order \in SortedActions(step) :
       \E iter \in IterOrders(step, symbol_states) :
         LET new_states == process_step(symbol_states, order, iter)
         IN  /\ applied' = Some(step)
             /\ IF new_states = Panic
                THEN /\ panicked' = TRUE
                     /\ UNCHANGED <<symbol_states, ret>>
                ELSE /\ symbol_states' = new_states.v
                     /\ ret' = Some(make_frame(new_states.v))
                     /\ panicked' = FALSE
             /\ targeted' =
                  Targeted([x \in DOMAIN symbol_states |->
                               IntoStepSymbolState(symbol_states[x])], order, iter, 1)
    /\ UNCHANGED <<advancable_animation, is_paused, last_step_retrieved_at, last_event,
                   clock, style_repeat_mode, called, moved, shownAt, resumedAt,
                   advancedSince, calledWhilePaused, spacedFrames, nones, ctl_hist,
                   widget_vars, widget_hist, other_vars>>

NextStep == ProcessStep

\* Applying a step never consults the controllers: one style stands for all.
InitStep ==
    /\ Init
    /\ advancable_animation = Advancable_new(StepList(1, 1), Infinite, "Auto")
    /\ style_repeat_mode = Infinite

SpecStep == InitStep /\ [][NextStep]_vars

\* ------------------------------------------------- the text widgets
\* SmallTextWidget paints the text itself; AnimatedSmallTextWidget holds the
\* text and the animation side by side. Every render is given an area as wide
\* as the text.
Widgets == {"SmallTextWidget", "AnimatedSmallTextWidget"}

\* The keys callers pass to enable_animation: 0 has no style registered.
Keys == 0 .. 2

\* The component's animation_styles map.
animation_styles ==
    1 :> AnimationStyle(Finite(1), "Auto", StepList(1, 2))
    @@ 2 :> AnimationStyle(Infinite, "Manual", StepList(2, 2))

\* Animation::new that leaves the new animation paused.
Animation_new_with_Paused(style, text_symbols) ==
    [advancable_animation |->
         Advancable_new(style.steps, style.repeat_mode, style.advance_mode),
     symbol_states |-> [x \in DOMAIN text_symbols |-> Initial(text_symbols[x])],
     is_paused |-> TRUE,
     last_step_retrieved_at |-> None,
     last_event |-> None]

\* Animation::new(style, symbols) as a value: the fields of the new Animation.
Animation_new_with(style, text_symbols) ==
    [advancable_animation |->
         Advancable_new(style.steps, style.repeat_mode, style.advance_mode),
     symbol_states |-> [x \in DOMAIN text_symbols |-> Initial(text_symbols[x])],
     is_paused |-> FALSE,
     last_step_retrieved_at |-> None,
     last_event |-> None]

\* The rest of the state when the widget leaves its animation alone.
animation_rest == <<code_vars, clock, style_repeat_mode, anim_hist, ctl_hist, step_hist>>

\* ------------------------------------------------------------- enable_animation
EnableAnimation ==
    /\ ~panicked
    /\ UNCHANGED other_vars
    /\ \E k \in Keys :
         /\ key' = Some(k)
         /\ IF k \in DOMAIN animation_styles
            THEN LET style == animation_styles[k]
                     animation == Animation_new_with(style, symbols)
                 IN  /\ advancable_animation' = animation.advancable_animation
                     /\ symbol_states' = animation.symbol_states
                     /\ is_paused' = animation.is_paused
                     /\ last_step_retrieved_at' = animation.last_step_retrieved_at
                     /\ last_event' = animation.last_event
                     /\ animation_is_active' = TRUE
                     /\ style_repeat_mode' = style.repeat_mode
                     /\ replaced' = IF animation_is_active /\ IsSome(ret) THEN TRUE
                                    ELSE replaced
                     /\ ret' = None
                     /\ called' = FALSE
                     /\ moved' = FALSE
                     /\ shownAt' = None
                     /\ resumedAt' = None
                     /\ advancedSince' = FALSE
                     /\ calledWhilePaused' = FALSE
                     /\ spacedFrames' = 0
                     /\ nones' = 0
                     /\ ended' = FALSE
                     /\ calledAfterEnd' = FALSE
                     /\ UNCHANGED <<panicked, clock, ctl_hist, step_hist, widget,
                                    symbols, buf>>
            ELSE UNCHANGED <<animation_rest, widget_vars, replaced, ended,
                             calledAfterEnd>>

\* ------------------------------------------------------------- disable_animation
DisableAnimation ==
    /\ ~panicked
    /\ UNCHANGED other_vars
    /\ animation_is_active' = FALSE
    /\ key' = None
    /\ UNCHANGED <<animation_rest, widget, symbols, buf, replaced, ended,
                   calledAfterEnd>>

\* ------------------------------------------------------------- pause_animation
PauseAnimation ==
    /\ ~panicked
    /\ UNCHANGED other_vars
    /\ IF animation_is_active THEN Animation_pause ELSE UNCHANGED animation_rest
    /\ key' = None
    /\ UNCHANGED <<widget_vars, replaced, ended, calledAfterEnd>>

\* ------------------------------------------------------------- unpause_animation
UnpauseAnimation ==
    /\ ~panicked
    /\ UNCHANGED other_vars
    /\ IF animation_is_active THEN Animation_unpause ELSE UNCHANGED animation_rest
    /\ key' = None
    /\ UNCHANGED <<widget_vars, replaced, ended, calledAfterEnd>>

\* ------------------------------------------------------------- advance_animation
AdvanceAnimation ==
    /\ ~panicked
    /\ UNCHANGED other_vars
    /\ IF animation_is_active THEN Animation_advance ELSE UNCHANGED animation_rest
    /\ key' = None
    /\ UNCHANGED <<widget_vars, replaced, ended, calledAfterEnd>>

\* ------------------------------------------------------------- take_animation_event
\* AnimatedSmallTextWidget only.
TakeAnimationEvent ==
    /\ ~panicked
    /\ UNCHANGED other_vars
    /\ widget = "AnimatedSmallTextWidget"
    /\ IF animation_is_active THEN Animation_take_last_event
       ELSE UNCHANGED animation_rest
    /\ key' = None
    /\ UNCHANGED <<widget_vars, replaced, ended, calledAfterEnd>>

\* ------------------------------------------------------------- render
\* apply_styles / the text's own render: every symbol of the text is painted
\* on its cell.
Painted(cells, text_symbols) ==
    [x \in DOMAIN cells |->
        IF x \in DOMAIN text_symbols THEN text_symbols[x] ELSE cells[x]]

\* SmallTextWidget::render once next_frame() has returned: the frame is
\* painted, or the animation is disabled and the symbols are painted.
RenderSmallText ==
    IF IsSome(ret')
    THEN /\ buf' = Painted(buf, ret'.v)
         /\ UNCHANGED <<symbols, animation_is_active>>
    ELSE /\ animation_is_active' = FALSE
         /\ buf' = Painted(buf, symbols)
         /\ UNCHANGED symbols

\* AnimatedSmallTextWidget::render once next_frame() has returned: the frame's
\* symbols are inserted into the text's, then the text is painted.
RenderAnimatedText ==
    /\ symbols' = IF IsSome(ret')
                  THEN [x \in DOMAIN symbols \cup DOMAIN ret'.v |->
                           IF x \in DOMAIN ret'.v THEN ret'.v[x] ELSE symbols[x]]
                  ELSE symbols
    /\ buf' = Painted(buf, symbols')
    /\ UNCHANGED animation_is_active

Render ==
    /\ ~panicked
    /\ UNCHANGED other_vars
    /\ key' = None
    /\ UNCHANGED <<widget, replaced>>
    /\ IF animation_is_active
       THEN /\ Animation_next_frame
            /\ calledAfterEnd' = IF ended THEN TRUE ELSE calledAfterEnd
            /\ IF panicked'
               THEN UNCHANGED <<symbols, animation_is_active, buf, ended>>
               ELSE /\ ended' = IF IsSome(ret') THEN ended ELSE TRUE
                    /\ IF widget = "SmallTextWidget" THEN RenderSmallText
                       ELSE RenderAnimatedText
       ELSE /\ buf' = Painted(buf, symbols)
            /\ UNCHANGED <<animation_rest, symbols, animation_is_active, ended,
                           calledAfterEnd>>

NextWidget ==
    EnableAnimation \/ DisableAnimation \/ PauseAnimation \/ UnpauseAnimation
        \/ AdvanceAnimation \/ TakeAnimationEvent \/ Render \/ Tick

\* A widget after new: no animation is active, and the Animation variables
\* hold no object until the first enable_animation.
InitWidget ==
    /\ AnimationInit({animation_styles[1]})
    /\ \E kind \in Widgets : Widget_new(kind)
    /\ OthersRest

SpecWidget == InitWidget /\ [][NextWidget]_vars

\* ------------------------------------------------- the button widget
\* ratatui's Rect and Rect::contains(position).
Rect(x, y, width, height) == [x |-> x, y |-> y, width |-> width, height |-> height]

Position(x, y) == [x |-> x, y |-> y]

Rect_contains(rect, pos) ==
    /\ pos.x >= rect.x
    /\ pos.x < rect.x + rect.width
    /\ pos.y >= rect.y
    /\ pos.y < rect.y + rect.height

\* ThickButton::contains: the first three rows of the area at most.
ThickButton_contains(area, pos) ==
    Rect_contains(Rect(area.x, area.y, area.width, Min(area.height, 3)), pos)

\* ThinButton::contains: one row, the second of the area when it has three.
ThinButton_contains(area, pos) ==
    Rect_contains(IF area.height >= 3
                  THEN Rect(area.x, area.y + 1, area.width, 1)
                  ELSE Rect(area.x, area.y, area.width, 1), pos)

StyledButton_contains(self, area, pos) ==
    IF self = "Thick" THEN ThickButton_contains(area, pos)
    ELSE ThinButton_contains(area, pos)

\* ButtonWidget::contains(widget_area, position) of a widget whose status is
\* self_status: the StyledButton of the present status answers.
contains(self_status, area, pos) ==
    StyledButton_contains(buttons[self_status], area, pos)

\* ButtonWidget::press / unpress / disable / enable: the status afterwards.
press_Always(self_status) == "Pressed"

press(self_status) == IF self_status # "Disabled" THEN "Pressed" ELSE self_status

unpress(self_status) == IF self_status = "Pressed" THEN "Normal" ELSE self_status

disable(self_status) == "Disabled"

enable(self_status) == IF self_status = "Disabled" THEN "Normal" ELSE self_status

\* ButtonEvent
Clicked == [tag |-> "Clicked"]
Hovered(is_already_hovered) == [tag |-> "Hovered", v |-> is_already_hovered]
Unhovered == [tag |-> "Unhovered"]

\* ButtonWidget::on_mouse_down(mouse_button, position, widget_area): the event
\* returned; the method takes &self.
on_mouse_down_AnyStatus(self_status, mouse_button, pos, area) ==
    IF mouse_button = "Left" /\ contains(self_status, area, pos)
    THEN Some(Clicked) ELSE None

on_mouse_down(self_status, mouse_button, pos, area) ==
    IF /\ mouse_button = "Left"
       /\ self_status # "Disabled"
       /\ contains(self_status, area, pos)
    THEN Some(Clicked) ELSE None

\* ButtonWidget::on_mouse_moved(position, widget_area): the status afterwards
\* and the event returned.
on_mouse_moved_AnyStatus(self_status, pos, area) ==
    LET is_hovered == contains(self_status, area, pos) IN
    IF is_hovered THEN [status |-> "Hovered", ret |-> Some(Hovered(self_status = "Hovered"))]
    ELSE [status |-> "Normal", ret |-> Some(Unhovered)]

on_mouse_moved(self_status, pos, area) ==
    LET is_hovered == contains(self_status, area, pos) IN
    CASE self_status = "Hovered" /\ ~is_hovered ->
             [status |-> "Normal", ret |-> Some(Unhovered)]
      [] self_status = "Hovered" /\ is_hovered ->
             [status |-> self_status, ret |-> Some(Hovered(TRUE))]
      [] self_status = "Normal" /\ is_hovered ->
             [status |-> "Hovered", ret |-> Some(Hovered(FALSE))]
      [] self_status \notin {"Hovered", "Normal"} /\ is_hovered ->
             [status |-> self_status, ret |-> Some(Hovered(FALSE))]
      [] OTHER -> [status |-> self_status, ret |-> None]

\* ButtonWidget::on_crossterm_event(event, widget_area): mouse-down and
\* mouse-move events are handled, every other event is ignored.
on_crossterm_event(self_status, ev, area) ==
    IF ev.type = "Mouse" /\ ev.kind = "Down"
    THEN [status |-> self_status,
          ret |-> on_mouse_down(self_status, ev.button,
                                Position(ev.column, ev.row), area)]
    ELSE IF ev.type = "Mouse" /\ ev.kind = "Moved"
    THEN on_mouse_moved(self_status, Position(ev.column, ev.row), area)
    ELSE [status |-> self_status, ret |-> None]

\* The events and areas given to the button: the area is one column wide at
\* column 1 and starts at row 1; the mouse is on it, beside it, above it or
\* below it.
MouseEvent(kind, button, column, row) ==
    [type |-> "Mouse", kind |-> kind, button |-> button,
     column |-> column, row |-> row]

Events ==
    {MouseEvent(k[1], k[2], column, row) :
        k \in {<<"Down", "Left">>, <<"Down", "Right">>, <<"Up", "Left">>,
               <<"Moved", "None">>},
        column \in 0 .. 2, row \in 0 .. (MaxHeight + 1)}
        \cup {[type |-> "Key"]}

ButtonCall(op, new_status) ==
    /\ status' = new_status
    /\ button_op' = op
    /\ event' = None
    /\ widget_area' = None
    /\ button_ret' = None
    /\ UNCHANGED <<buttons, is_spinner_enabled>>

Press == ButtonCall("press", press(status))

Unpress == ButtonCall("unpress", unpress(status))

Disable == ButtonCall("disable", disable(status))

Enable == ButtonCall("enable", enable(status))

EnableSpinner ==
    /\ is_spinner_enabled' = TRUE
    /\ button_op' = "enable_spinner"
    /\ event' = None
    /\ widget_area' = None
    /\ button_ret' = None
    /\ UNCHANGED <<status, buttons>>

DisableSpinner ==
    /\ is_spinner_enabled' = FALSE
    /\ button_op' = "disable_spinner"
    /\ event' = None
    /\ widget_area' = None
    /\ button_ret' = None
    /\ UNCHANGED <<status, buttons>>

OnCrosstermEvent ==
    \E ev \in Events, area \in {Rect(1, 1, 1, h) : h \in 0 .. MaxHeight} :
        LET r == on_crossterm_event(status, ev, area) IN
        /\ status' = r.status
        /\ button_ret' = r.ret
        /\ button_op' = "on_crossterm_event"
        /\ event' = Some(ev)
        /\ widget_area' = Some(area)
        /\ UNCHANGED <<buttons, is_spinner_enabled>>

button_rest ==
    <<code_vars, clock, style_repeat_mode, anim_hist, ctl_hist, step_hist,
      widget_vars, widget_hist, spinner_vars, spinner_hist, text_vars>>

NextButton ==
    /\ \/ Press \/ Unpress \/ Disable \/ Enable
       \/ EnableSpinner \/ DisableSpinner \/ OnCrosstermEvent
    /\ UNCHANGED button_rest

\* A button after new, of any of the styles.
InitButton ==
    /\ AnimationInit({animation_styles[1]})
    /\ Widget_new("SmallTextWidget")
    /\ \E style \in ButtonStyles : ButtonWidget_new(style)
    /\ SmallSpinnerWidget_new([type_ |-> "Ascii", interval |-> 0, alignment |-> "Left"])
    /\ SmallTextStyle_given({})

SpecButton == InitButton /\ [][NextButton]_vars

\* ------------------------------------------------- the spinner widget
\* SymbolCycle::current_symbol
current_symbol(self) == self.symbols[self.current_index + 1]

\* SymbolCycle::next_symbol: the cycle afterwards and the symbol returned.
next_symbol_NoWrap(self) ==
    LET index == Min(self.current_index + 1, Len(self.symbols) - 1) IN
    [self |-> [self EXCEPT !.current_index = index], ret |-> self.symbols[index + 1]]

next_symbol(self) ==
    LET index == IF self.current_index # Len(self.symbols) - 1
                 THEN self.current_index + 1 ELSE 0
    IN  [self |-> [self EXCEPT !.current_index = index],
         ret |-> self.symbols[index + 1]]

\* SymbolCycle::reset
SymbolCycle_reset(self) == [self EXCEPT !.current_index = 0]

\* Instant::checked_add(Duration): None when the sum cannot be represented.
checked_add(timestamp, duration) ==
    IF timestamp + duration > InstantMax THEN None ELSE Some(timestamp + duration)

\* The interval check of render: RenderIntervalCheckResult.
RenderIntervalCheck_NeverTooSoon(self_last_rendered_at, now, interval) ==
    IF IsSome(self_last_rendered_at) THEN "Ready" ELSE "FirstTime"

RenderIntervalCheck(self_last_rendered_at, now, interval) ==
    IF IsSome(self_last_rendered_at)
    THEN LET min_timestamp == checked_add(self_last_rendered_at.v, interval) IN
         IF IsSome(min_timestamp)
         THEN IF now >= min_timestamp.v THEN "Ready" ELSE "TooSoon"
         ELSE "ComparisonError"
    ELSE "FirstTime"

\* The column render writes to.
render_x(area, alignment) ==
    IF area.width = 1 THEN area.x
    ELSE CASE alignment = "Left" -> area.x
           [] alignment = "Center" -> area.x + (area.width \div 2)
           [] alignment = "Right" -> area.x + area.width - 1

\* <&mut SmallSpinnerWidget as Widget>::render(area, buf), on two areas
\* without cells, one of a single cell and a wider one.
SpinnerRender ==
    \E area \in {Rect(0, 0, 0, 1), Rect(0, 0, 1, 0), Rect(0, 0, 1, 1),
                 Rect(1, 0, 4, 1)} :
        IF area.height < 1 \/ area.width < 1
        THEN UNCHANGED <<spinner_vars, spinner_hist>>
        ELSE LET now == clock
                 interval_check_result ==
                     RenderIntervalCheck(last_rendered_at, now, spinner_style.interval)
                 next == next_symbol(symbol_cycle)
                 symbol_to_render ==
                     IF interval_check_result = "Ready" THEN next.ret
                     ELSE current_symbol(symbol_cycle)
             IN  /\ renders < MaxRenders
                 /\ last_rendered_at' =
                        IF interval_check_result \in {"Ready", "FirstTime"}
                        THEN Some(now) ELSE last_rendered_at
                 /\ symbol_cycle' =
                        IF interval_check_result = "Ready" THEN next.self
                        ELSE symbol_cycle
                 /\ cell' = Some([x |-> render_x(area, spinner_style.alignment),
                                  symbol |-> symbol_to_render])
                 /\ renders' = renders + 1
                 /\ reset_phase' = IF reset_phase = "Pending" THEN "Done"
                                   ELSE reset_phase
                 /\ UNCHANGED spinner_style

\* SmallSpinnerWidget::reset
SpinnerReset ==
    /\ symbol_cycle' = SymbolCycle_reset(symbol_cycle)
    /\ reset_phase' = "Pending"
    /\ UNCHANGED <<spinner_style, last_rendered_at, cell, renders>>

spinner_rest ==
    <<code_vars, clock, style_repeat_mode, anim_hist, ctl_hist, step_hist,
      widget_vars, widget_hist, button_vars, button_hist, text_vars>>

NextSpinner ==
    \/ (SpinnerRender \/ SpinnerReset) /\ UNCHANGED spinner_rest
    \/ Tick

\* A spinner after new, of any of the styles.
InitSpinner ==
    /\ AnimationInit({animation_styles[1]})
    /\ Widget_new("SmallTextWidget")
    /\ ButtonWidget_new(ButtonStyle("Thick", "Thick", "Thick", "Thick"))
    /\ \E style \in [type_ : {"Ascii", "MoonPhases", "Canadian"},
                      interval : (0 .. MaxInterval) \cup {DurationMax},
                      alignment : {"Left", "Center", "Right"}] :
          SmallSpinnerWidget_new(style)
    /\ SmallTextStyle_given({})

SpecSpinner == InitSpinner /\ [][NextSpinner]_vars

\* ------------------------------------------------- the text's static styles
\* One entry of SmallTextStyle.symbol_styles: a target and the style for it.
StyleEntry(target, fg) ==
    [target |-> target,
     style |-> [foreground_color |-> fg, background_color |-> "Reset",
                modifier |-> {}]]

\* The entries the styles are drawn from, each with a colour of its own.
StyleEntries ==
    {StyleEntry(Single(1), "Red"), StyleEntry(Single(2), "Green"),
     StyleEntry(Range(0, 1), "Yellow"), StyleEntry(Range(1, 2), "Blue"),
     StyleEntry(Range(0, 2), "Magenta"), StyleEntry(Every(2), "Cyan"),
     StyleEntry(AllExceptEvery(2), "Gray"), StyleEntry(Untouched, "White")}

\* The closure priority of targets_sorter.
priority(item) ==
    CASE item.kind = "Single" -> 4
      [] item.kind = "Range" -> 3
      [] item.kind = "Every" -> 2
      [] item.kind = "AllExceptEvery" -> 1
      [] item.kind = "Untouched" -> 0

\* symbol_styles.into_iter().collect() followed by the stable
\* sort_by(targets_sorter): the HashMap hands the entries over in any order,
\* and the sort leaves entries of one priority in that order.
SortedStyles(styles) ==
    LET n == Cardinality(styles) IN
    {order \in [1 .. n -> styles] :
        /\ \A i, j \in 1 .. n : i # j => order[i] # order[j]
        /\ \A i, j \in 1 .. n :
              i < j => priority(order[i].target) <= priority(order[j].target)}

\* resolve_target of the text: the positions a target stands for, as a set
\* (the iterator yields each once, in ascending order).
Text_resolve_target(target, char_count) ==
    LET all == 0 .. (char_count - 1) IN
    CASE target.kind = "Single" -> {target.a}
      [] target.kind = "Range" -> target.a .. (target.b - 1)
      [] target.kind = "Every" -> {x \in all : x % target.a = 0}
      [] target.kind = "AllExceptEvery" -> {x \in all : x % target.a # 0}
      [] target.kind = "Untouched" -> {}

\* The first loop of create_symbols, from entry i on: every entry but
\* Untouched puts its style on the positions it resolves to that hold a
\* character, over what earlier entries put there.
RECURSIVE StyleTargets(_, _, _, _)
StyleTargets(order, i, char_count, resolved) ==
    IF i > Len(order) THEN resolved
    ELSE IF order[i].target = Untouched
    THEN StyleTargets(order, i + 1, char_count, resolved)
    ELSE LET xs == Text_resolve_target(order[i].target, char_count)
                     \cap (0 .. (char_count - 1))
             s == order[i].style
         IN  StyleTargets(order, i + 1, char_count,
                 [x \in DOMAIN resolved \cup xs |->
                     IF x \in xs
                     THEN Symbol("a", s.foreground_color, s.background_color,
                                 s.modifier)
                     ELSE resolved[x]])

\* The second loop: an Untouched entry styles every position no other entry
\* has styled.
StyleUntouched(order, char_count, resolved) ==
    LET styled_x_coords == DOMAIN resolved
        untouched == {i \in 1 .. Len(order) : order[i].target = Untouched}
    IN  IF untouched = {} THEN resolved
        ELSE LET s == order[CHOOSE i \in untouched : TRUE].style IN
             [x \in 0 .. (char_count - 1) |->
                 IF x \in styled_x_coords THEN resolved[x]
                 ELSE Symbol("a", s.foreground_color, s.background_color,
                             s.modifier)]

\* create_symbols(text, symbol_styles) on a text of char_count characters,
\* the entries already collected and sorted into order: position -> Symbol
\* for the positions that got a style.
create_symbols(char_count, order) ==
    StyleUntouched(order, char_count,
                   StyleTargets(order, 1, char_count, [x \in {} |-> DefaultSymbol]))

\* SmallTextWidget::new(style) up to the symbols it keeps.
CreateSymbols ==
    /\ created = None
    /\ \E order \in SortedStyles(symbol_styles) :
          created' = Some(create_symbols(NumSymbols, order))
    /\ UNCHANGED symbol_styles

text_rest ==
    <<code_vars, clock, style_repeat_mode, anim_hist, ctl_hist, step_hist,
      widget_vars, widget_hist, button_vars, button_hist, spinner_vars,
      spinner_hist>>

NextText == CreateSymbols /\ UNCHANGED text_rest

\* A text style of any set of at most MaxEntries entries, one per target as
\* in a HashMap, before SmallTextWidget::new.
InitText ==
    /\ AnimationInit({animation_styles[1]})
    /\ Widget_new("SmallTextWidget")
    /\ ButtonWidget_new(ButtonStyle("Thick", "Thick", "Thick", "Thick"))
    /\ SmallSpinnerWidget_new([type_ |-> "Ascii", interval |-> 0, alignment |-> "Left"])
    /\ \E styles \in {s \in SUBSET StyleEntries : Cardinality(s) <= MaxEntries} :
          SmallTextStyle_given(styles)

SpecText == InitText /\ [][NextText]_vars

\* ================================================================ claims
IsAuto == advancable_animation.kind = "Automatically"
IsManual == advancable_animation.kind = "Manually"
CurrentStep == Advancable_current_step(advancable_animation)

\* ---------------------------------------------------------------- C1
C1_Config ==
    /\ IsAuto
    /\ style_repeat_mode = Finite(2)
    /\ Len(steps) = 3

\* C1 as stated: with Finite(2) over 3 steps exactly the first 6 next_step()
\* calls on a fresh controller return Some and every later call returns None.
C1_SixThenNone == C1_Config => somes = Min(calls, 6)

\* C1 amended: with Finite(2) over 3 steps exactly the first 5 next_step() calls
\* on a fresh controller return Some (steps 1, 2, 0, 1, 2: with step 0, which
\* is current from the start, two full passes) and every later call, 100
\* further ones included, returns None.
C1_FiveThenNone == C1_Config => somes = Min(calls, 5)

C1_Witness == C1_Config /\ calls = 105 /\ somes = 5 /\ ctl_op = "next_step"

\* ---------------------------------------------------------------- C2
C2_Config ==
    /\ IsAuto
    /\ style_repeat_mode = Finite(1)
    /\ steps = StepList(1, 2)

\* C2: in the 2-step Finite(1) Auto animation a next_frame() call made after
\* step 1 was applied and before step 1's duration has elapsed returns step
\* 1's frame again, not None.
C2_LastStepHeld ==
    [][(/\ NextFrame
        /\ C2_Config
        /\ ~is_paused
        /\ resumedAt = None
        /\ rep.current_index = 1
        /\ shownAt # None
        /\ clock - shownAt.v < steps[2].duration)
       => (IsSome(ret') /\ ret' = ret)]_vars

\* ---------------------------------------------------------------- C3
\* C3: an Auto animation with Finite(n), n >= 1, over L steps, ticked with at
\* least the step duration between calls, has returned exactly n*L frames
\* when it returns None.
C3_FramesBeforeNone ==
    (/\ IsAuto
     /\ style_repeat_mode.kind = "Finite"
     /\ style_repeat_mode.n >= 1
     /\ called
     /\ ret = None
     /\ spacedFrames # -1)
    => spacedFrames = style_repeat_mode.n * Len(steps)

\* ---------------------------------------------------------------- C4
\* C4: under Auto, with a next step available and no pause since the current
\* step was retrieved, a next_frame() call made at least the step's duration
\* after the step was first retrieved moves to the next step.
C4_LongEnoughStepIsLeft ==
    [][(/\ NextFrame
        /\ IsAuto
        /\ ~is_paused
        /\ resumedAt = None
        /\ last_step_retrieved_at # None
        /\ shownAt # None
        /\ IsSome(CurrentStep)
        /\ clock - shownAt.v >= CurrentStep.v.duration)
       => moved']_vars

\* ---------------------------------------------------------------- C5
\* C5: a non-paused, non-first next_frame() call that does not move to a new
\* step leaves last_step_retrieved_at unchanged.
C5_TimestampKept ==
    [][(/\ NextFrame
        /\ ~is_paused
        /\ last_step_retrieved_at # None
        /\ ~moved')
       => last_step_retrieved_at' = last_step_retrieved_at]_vars

\* ---------------------------------------------------------------- C6
\* C6: under Manual, a next_frame() call that follows a call which returned a
\* frame, with no advance() pending or called in between, returns the same
\* frame and leaves the current step where it was.
C6_NoAdvanceSameFrame ==
    [][(/\ NextFrame
        /\ IsManual
        /\ ~advancable_animation.is_advanced
        /\ ~advancedSince
        /\ called
        /\ IsSome(ret))
       => (ret' = ret /\ position' = position)]_vars

\* ---------------------------------------------------------------- C7
\* C7: Manual next_step() with the flag false returns None and leaves the
\* repetition controller unchanged; with the flag true it forwards to the
\* repetition controller once; either way the flag is false afterwards, so a
\* next_step() that directly follows another next_step() returns None.
C7_ManualGate ==
    [][(CtlNextStep /\ IsManual)
       => (/\ advancable_animation'.is_advanced = FALSE
           /\ ~advancable_animation.is_advanced
                => (ctl_ret' = None /\ rep' = rep)
           /\ advancable_animation.is_advanced
                => Result(rep', ctl_ret') = Repeatable_next_step(rep)
           /\ ctl_op = "next_step"
                => (ctl_ret' = None /\ position' = position))]_vars

C7_Witness ==
    /\ IsManual
    /\ ctl_op = "next_step"
    /\ ctl_ret = None
    /\ somes >= 2
    /\ calls > somes
    /\ ~advancable_animation.is_advanced

\* ---------------------------------------------------------------- C8
\* C8: under Manual a next_frame() call gets a new step only if advance() was
\* called since the previous step change and the current step's duration has
\* elapsed since that step was retrieved.
C8_ManualNeedsBoth ==
    [][(NextFrame /\ IsManual /\ moved')
       => (/\ advancedSince
           /\ shownAt # None
           /\ IsSome(CurrentStep)
           /\ clock - shownAt.v >= CurrentStep.v.duration)]_vars

C8_Witness ==
    /\ IsManual
    /\ moved
    /\ IsSome(ret)
    /\ rep.current_index = 1
    /\ clock >= 2

\* ---------------------------------------------------------------- C9
\* C9: while paused, every next_frame() call after the first one made since
\* pausing returns the same frame as the call before it (so all equal the
\* first frame returned after pausing).
C9_PausedFramesEqual ==
    [][(NextFrame /\ is_paused /\ calledWhilePaused) => ret' = ret]_vars

\* ---------------------------------------------------------------- C10
\* C10: after unpause() the current step is left only once its duration has
\* elapsed measured from the unpause moment.
C10_PausedTimeNotCounted ==
    [][(NextFrame /\ moved' /\ resumedAt # None)
       => clock - resumedAt.v >= CurrentStep.v.duration]_vars

\* ---------------------------------------------------------------- C11
\* C11: a next_frame() call made while paused leaves the advance controller
\* (the repetition controller's index and iteration, the Manual ready flag)
\* and last_step_retrieved_at as they were, however much time has elapsed.
C11_PausedCallKeepsController ==
    [][(NextFrame /\ is_paused)
       => (/\ position' = position
           /\ advancable_animation' = advancable_animation
           /\ last_step_retrieved_at' = last_step_retrieved_at)]_vars

\* A frame was returned during a pause that began (after an unpause at
\* resumedAt) when the step's duration had already elapsed since the step was
\* retrieved, under Auto, with a next step there to take.
C11_Witness ==
    /\ is_paused
    /\ calledWhilePaused
    /\ IsAuto
    /\ last_step_retrieved_at # None
    /\ resumedAt # None
    /\ IsSome(CurrentStep)
    /\ resumedAt.v - last_step_retrieved_at.v >= CurrentStep.v.duration
    /\ CurrentStep.v.duration > 0
    /\ IsSome(Advancable_next_step(advancable_animation).ret)

\* ---------------------------------------------------------------- C12
\* C12: pause() and unpause() change nothing but the paused flag, and
\* advance() under AdvanceMode::Auto changes nothing at all: the advance
\* controller (and with it the step position), the symbol states, the
\* timestamp and the last event are the same after the call as before it.
C12_ControlsAreFlagOnly ==
    [][/\ Pause => (is_paused' /\ UNCHANGED <<advancable_animation, symbol_states,
                                             last_step_retrieved_at, last_event>>)
       /\ Unpause => (~is_paused' /\ UNCHANGED <<advancable_animation, symbol_states,
                                                last_step_retrieved_at, last_event>>)
       /\ (Advance /\ IsAuto) => UNCHANGED code_vars]_vars

\* Under Auto, with step 1 current and a frame returned: advance() was called
\* since the step was taken, and a pause, an unpause and another pause followed
\* the last frame.
C12_Witness ==
    /\ IsAuto
    /\ advancedSince
    /\ is_paused
    /\ ~calledWhilePaused
    /\ resumedAt # None
    /\ rep.current_index = 1
    /\ last_step_retrieved_at # None
    /\ IsSome(ret)

\* ---------------------------------------------------------------- C13
\* C13: with RepeatMode::Finite(n) over a non-empty step list, once the
\* repetition controller's next_step() has returned None, every later
\* next_step() and current_step() call returns None and (current_index,
\* current_iteration) never changes again.
C13_ExhaustedForGood ==
    [][(exhausted /\ style_repeat_mode.kind = "Finite")
       => (/\ position' = position
           /\ CtlNextStep => ctl_ret' = None
           /\ CtlCurrentStep => ctl_ret' = None)]_vars

\* Finite(2) over 3 steps, under Auto: next_step() has returned None twice or
\* more, the last of them just now, at the last step of the last iteration.
C13_Witness ==
    /\ exhausted
    /\ IsAuto
    /\ style_repeat_mode = Finite(2)
    /\ Len(steps) = 3
    /\ position = <<2, 1>>
    /\ calls >= somes + 2
    /\ ctl_op = "next_step"
    /\ ctl_ret = None

\* ---------------------------------------------------------------- C14
\* C14: with RepeatMode::Infinite over L >= 1 steps, a next_step() call that
\* reaches the repetition controller never returns None (it returns the step
\* at the new index), current_index stays within 0 .. L-1, and a next_step()
\* taken at index L-1 sets the index to 0, for any number of calls.
C14_InfiniteWraps ==
    [][(CtlNextStep /\ style_repeat_mode = Infinite)
       => (/\ rep'.current_index \in 0 .. (Len(steps) - 1)
           /\ RepetitionAsked
                => (/\ ctl_ret' = Some(steps[rep'.current_index + 1])
                    /\ rep.current_index = Len(steps) - 1 => rep'.current_index = 0
                    /\ rep.current_index # Len(steps) - 1
                         => rep'.current_index = rep.current_index + 1))]_vars

\* 100 next_step() calls under Auto on an Infinite controller over 3 steps,
\* all of which returned Some: 33 wraps, the index at 100 mod 3.
C14_Witness ==
    /\ style_repeat_mode = Infinite
    /\ IsAuto
    /\ Len(steps) = 3
    /\ calls = 100
    /\ somes = 100
    /\ ctl_op = "next_step"
    /\ rep.current_index = 1
    /\ ~exhausted

\* ---------------------------------------------------------------- C15
\* A fresh Infinite controller over 3 steps of pairwise different content,
\* reached through the Auto advance controller.
C15_Config ==
    /\ IsAuto
    /\ style_repeat_mode = Infinite
    /\ steps = StepList(2, 3)

\* C15 as stated: after the 4th next_step() call the controller is at index 0
\* again and the call's result is the step at index 0, identical to the
\* result of the first next_step() call.
C15_FourthIsStepZero ==
    (C15_Config /\ calls = 4)
    => (/\ rep.current_index = 0
        /\ ctl_ret = Some(steps[1])
        /\ ctl_ret = firstRet)

\* C15 amended: the first next_step() call returns the step at index 1, the
\* 3rd call returns the step at index 0 (the wrap), and the 4th call returns
\* the step at index 1 again, identical to the result of the first call.
C15_FourthIsStepOne ==
    C15_Config
    => (/\ calls = 1 => (rep.current_index = 1 /\ firstRet = Some(steps[2]))
        /\ calls = 3 => (rep.current_index = 0 /\ ctl_ret = Some(steps[1]))
        /\ calls = 4 => (/\ rep.current_index = 1
                         /\ ctl_ret = Some(steps[2])
                         /\ ctl_ret = firstRet
                         /\ ctl_ret # Some(steps[1])))

C15_Witness ==
    /\ C15_Config
    /\ calls = 4
    /\ ctl_op = "next_step"
    /\ ctl_ret = firstRet
    /\ IsSome(ctl_ret)

\* ---------------------------------------------------------------- C16
\* C16: current_step() changes nothing in the advance controller or in the
\* repetition controller inside it; advance() leaves the repetition
\* controller, and so (current_index, current_iteration), as it was; a change
\* of the step position is always the work of a next_step() call.
C16_OnlyNextStepMoves ==
    [][/\ CtlCurrentStep => advancable_animation' = advancable_animation
       /\ CtlAdvance => (rep' = rep /\ position' = position)
       /\ position' # position => CtlNextStep]_vars

\* Under Manual: the first next_step() returned the step at index 1, the
\* second returned None, then advance() was called and a current_step() call
\* returned the step at index 1, which is still the current one.
C16_Witness ==
    /\ IsManual
    /\ IsSome(firstRet)
    /\ calls = 2
    /\ somes = 1
    /\ ctl_op = "advance"
    /\ advancable_animation.is_advanced
    /\ position = <<1, 0>>
    /\ IsSome(ctl_ret)
    /\ ctl_ret = CurrentStep

\* ---------------------------------------------------------------- C17
\* The step a next_frame() call is about to apply (Some), or None / Panic.
AppliedStep == ChooseStep.ret

\* A next_frame() call that applies a step and returns a frame.
AppliesStep == NextFrame /\ IsSome(AppliedStep) /\ ~panicked'

\* C17: a position covered by a Single or Range entry of the applied step
\* never receives that step's UntouchedThisStep actions: when the step has
\* an UntouchedThisStep entry too, the symbol at such a position is, after
\* the step, what the Single or Range entry's actions alone make of it.
C17_SpecificFirst ==
    [][AppliesStep
       => \A e \in AppliedStep.v.actions :
            \A u \in AppliedStep.v.actions :
              (e.target.kind \in {"Single", "Range"} /\ u.target.kind = "UntouchedThisStep")
              => \A x \in (e.target.a .. e.target.b) \cap Positions :
                   symbol_states'[x].symbol = ApplyActions(symbol_states[x].symbol, e.acts, 1)]_vars

OutsideSpecific(step, x) ==
    \A o \in step.actions :
      o.target.kind \in {"Single", "Range"} => x \notin o.target.a .. o.target.b

\* C19: Untouched resolves to exactly the positions no step has styled (state
\* Initial). In a step made of an Untouched entry and Single or Range
\* entries, a position outside the Single and Range entries gets the
\* Untouched entry's actions if its state is Initial and is left as it is
\* if an earlier step styled it.
C19_UntouchedIsInitial ==
    [][(ProcessStep /\ ~panicked')
       => \A e \in applied'.v.actions :
            (/\ e.target.kind = "Untouched"
             /\ \A o \in applied'.v.actions :
                  o.target.kind \in {"Single", "Range", "Untouched"})
            => \A x \in Positions :
                 OutsideSpecific(applied'.v, x)
                 => symbol_states'[x] =
                      IF symbol_states[x].tag = "Initial"
                      THEN Styled(ApplyActions(symbol_states[x].symbol, e.acts, 1))
                      ELSE symbol_states[x]]_vars

\* ---------------------------------------------------------------- C20
\* C20: Every(n) selects the positions whose place in ascending key order is
\* 0, n, 2n, ..., whatever order the hash map is iterated in. In a step made
\* of an Every(n) entry and Single or Range entries, a position outside the
\* Single and Range entries gets the Every entry's actions if its place is a
\* multiple of n and is left as it is otherwise.
C20_EveryIsStrideOfSorted ==
    [][(ProcessStep /\ ~panicked')
       => \A u \in applied'.v.actions :
            (/\ u.target.kind = "Every"
             /\ \A o \in applied'.v.actions :
                  o.target.kind \in {"Single", "Range", "Every"})
            => \A x \in Positions :
                 OutsideSpecific(applied'.v, x)
                 => symbol_states'[x] =
                      IF Rank(x, symbol_states) % u.target.a = 0
                      THEN Styled(ApplyActions(symbol_states[x].symbol, u.acts, 1))
                      ELSE symbol_states[x]]_vars

\* ---------------------------------------------------------------- C21
\* C21: Range(a, b) resolves to every position a, a+1, ..., b, both ends
\* included. After a step with a Range entry and no Single entry, every
\* position of a .. b is Styled and shows the entry's actions; when the Range
\* entry is the step's only entry, the positions of a .. b are exactly what
\* the entry's actions make of them and every other position is as before.
C21_RangeInclusive ==
    [][(ProcessStep /\ ~panicked')
       => \A e \in applied'.v.actions :
            (/\ e.target.kind = "Range"
             /\ \A o \in applied'.v.actions : o.target.kind # "Single")
            => (/\ \A x \in Positions \cap (e.target.a .. e.target.b) :
                     /\ symbol_states'[x].tag = "Styled"
                     /\ symbol_states'[x].symbol =
                          ApplyActions(symbol_states'[x].symbol, e.acts, 1)
                /\ applied'.v.actions = {e}
                     => \A x \in Positions :
                          symbol_states'[x] =
                            IF x \in e.target.a .. e.target.b
                            THEN Styled(ApplyActions(symbol_states[x].symbol, e.acts, 1))
                            ELSE symbol_states[x])]_vars

\* Range(1, 2) applied to three fresh symbols: positions 1 and 2, the two
\* ends, are Cyan, position 0 is untouched.
C21_Witness ==
    /\ applied = Some(StepSpan(1))
    /\ symbol_states[0] = Initial(DefaultSymbol)
    /\ symbol_states[1] = Styled([DefaultSymbol EXCEPT !.foreground_color = "Cyan"])
    /\ symbol_states[2] = Styled([DefaultSymbol EXCEPT !.foreground_color = "Cyan"])

\* ---------------------------------------------------------------- C22
\* The step view process_step builds of the symbol states.
StepView(states) == [x \in DOMAIN states |-> IntoStepSymbolState(states[x])]

\* C22: for every n >= 1, over one position map (one iteration order of it),
\* the positions Every(n) selects and those ExceptEvery(n) selects are
\* disjoint and together are all the positions. So after a step made of an
\* Every(n) and an ExceptEvery(n) entry every position is Styled and shows
\* the actions of exactly one of the two, ceil(K / n) of the K positions
\* those of Every.
C22_EveryPartition ==
    /\ \A n \in 1 .. MaxStride :
         \A iter \in HashOrders(symbol_states) :
           LET every == resolve_target(Every(n), StepView(symbol_states), iter)
               except == resolve_target(ExceptEvery(n), StepView(symbol_states), iter)
           IN  /\ every \cap except = {}
               /\ every \cup except = DOMAIN symbol_states
    /\ (IsSome(applied) /\ ~panicked)
         => \A e \in applied.v.actions :
              \A u \in applied.v.actions :
                (/\ e.target.kind = "Every"
                 /\ u.target = ExceptEvery(e.target.a)
                 /\ applied.v.actions = {e, u})
                => LET by_every ==
                         {x \in Positions :
                            symbol_states[x] =
                              Styled(ApplyActions(symbol_states[x].symbol, e.acts, 1))}
                       by_except ==
                         {x \in Positions :
                            symbol_states[x] =
                              Styled(ApplyActions(symbol_states[x].symbol, u.acts, 1))}
                   IN  /\ by_every \cap by_except = {}
                       /\ by_every \cup by_except = Positions
                       /\ Cardinality(by_every) =
                            (Cardinality(Positions) + e.target.a - 1) \div e.target.a

\* Every(2) and ExceptEvery(2) applied to three fresh symbols with the map
\* yielding its keys in an order that is not the ascending one: positions 1
\* and 2 got the Every actions, position 0 the ExceptEvery actions.
C22_Witness ==
    /\ applied = Some(StepPartition(1))
    /\ symbol_states[0] = Styled([DefaultSymbol EXCEPT !.background_color = "Black"])
    /\ symbol_states[1] = Styled([DefaultSymbol EXCEPT !.background_color = "Yellow"])
    /\ symbol_states[2] = Styled([DefaultSymbol EXCEPT !.background_color = "Yellow"])

\* ---------------------------------------------------------------- C23
\* C23: target resolution is deterministic: over two position maps with the
\* same keys and states (whatever order each yields its keys in), every
\* target of the applied step resolves to the same set of positions, so
\* that the step leaves the same symbol states behind.
C23_ResolutionDeterministic ==
    [][(ProcessStep /\ ~panicked')
       => \A one \in HashOrders(symbol_states) :
            \A other \in HashOrders(symbol_states) :
              /\ \A e \in applied'.v.actions :
                   resolve_target(e.target, StepView(symbol_states), one) =
                     resolve_target(e.target, StepView(symbol_states), other)
              /\ \A order \in SortedActions(applied'.v) :
                   process_step(symbol_states, order, one) =
                     process_step(symbol_states, order, other)]_vars

\* ---------------------------------------------------------------- C24
\* C24: applying a step whose Single or Range target names a position the
\* position map lacks does not fail: the missing position is skipped and
\* the named positions that exist get the actions.
C24_MissingSkipped ==
    [][ProcessStep
       => (/\ ~panicked'
           /\ \A e \in applied'.v.actions :
                (e.target.kind \in {"Single", "Range"} /\ applied'.v.actions = {e})
                => \A x \in Positions \cap (e.target.a .. e.target.b) :
                     symbol_states'[x] =
                       Styled(ApplyActions(symbol_states[x].symbol, e.acts, 1)))]_vars

\* ---------------------------------------------------------------- C25
\* C25: the very first next_frame() call of an Animation built from a style
\* with zero steps returns None and does not fail, under RepeatMode::Infinite
\* and under every RepeatMode::Finite(n).
C25_EmptyReturnsNone ==
    [][(NextFrame /\ ~called /\ Len(steps) = 0)
       => (~panicked' /\ ret' = None /\ last_event' = Some("Ended"))]_vars

\* ---------------------------------------------------------------- C26
\* C26: a controller built with RepeatMode::Finite(0) and one built with
\* RepeatMode::Finite(1) from the same step list, given the same sequence of
\* current_step() / next_step() / advance() calls, return the same result at
\* every call, and both make one pass and no second one.
C26_ZeroIsOne ==
    style_repeat_mode \in {Finite(0), Finite(1)}
    => (/\ twin_ret = ctl_ret
        /\ rep.current_iteration = 0
        /\ twin.repeatable_animation.current_iteration = 0
        /\ somes <= Len(steps) - 1)

\* Finite(0) over 3 steps under Auto next to its Finite(1) twin: two
\* next_step() calls returned steps, the later ones None, for both.
C26_Witness ==
    /\ style_repeat_mode = Finite(0)
    /\ twin.repeatable_animation.kind = "Finitely"
    /\ IsAuto
    /\ Len(steps) = 3
    /\ calls = 4
    /\ somes = 2
    /\ ctl_op = "next_step"
    /\ ctl_ret = None
    /\ twin_ret = None
    /\ twin.repeatable_animation.current_index = 2

\* ---------------------------------------------------------------- C27
\* C27: every frame next_frame() returns has exactly the positions given to
\* Animation::new, Styled or still Initial, each with its current symbol; no
\* step adds or drops a position.
C27_FrameHasAllPositions ==
    /\ DOMAIN symbol_states = Positions
    /\ IsSome(ret)
         => (/\ DOMAIN ret.v = Positions
             /\ \A x \in Positions : ret.v[x] = symbol_states[x].symbol)

\* A frame returned after two steps were retrieved, with position 0 Styled
\* and position 2 still Initial.
C27_Witness ==
    /\ called
    /\ IsSome(ret)
    /\ moved
    /\ symbol_states[0].tag = "Styled"
    /\ symbol_states[2].tag = "Initial"
    /\ DOMAIN ret.v = Positions

\* ---------------------------------------------------------------- C28
\* C28: after every next_frame() call that returns a frame -- the first call
\* and calls made while paused included -- the event take_last_event() hands
\* out is FrameGenerated, that is, last_event is Some(FrameGenerated) when the
\* call returns.
C28_FrameSetsEvent ==
    [][AppliesStep => last_event' = Some("FrameGenerated")]_vars

\* ---------------------------------------------------------------- C29
\* C29: once a render has had None from the active animation's next_frame(),
\* the widget holds no active animation, the render has painted the text with
\* its static styling, and no later render calls next_frame() of that
\* animation again.
C29_EndedAnimationDropped ==
    /\ ended => (~animation_is_active /\ buf = TextSymbols)
    /\ ~calledAfterEnd

\* ---------------------------------------------------------------- C30
\* C30: enable_animation(key) with a registered key makes the active animation
\* a new one built from that key's style over the text's symbols -- at the
\* first step of the first pass, not paused, no retrieval time, no event --
\* and with an unregistered key leaves the widget and its active animation
\* as they were.
C30_EnableReplacesOrKeeps ==
    [][EnableAnimation =>
         IF key'.v \in DOMAIN animation_styles
         THEN /\ animation_is_active'
              /\ advancable_animation' =
                    Advancable_new(animation_styles[key'.v].steps,
                                   animation_styles[key'.v].repeat_mode,
                                   animation_styles[key'.v].advance_mode)
              /\ position' = <<0, 0>>
              /\ \A x \in Positions : symbol_states'[x] = Initial(symbols[x])
              /\ ~is_paused'
              /\ last_step_retrieved_at' = None
              /\ last_event' = None
         ELSE UNCHANGED <<code_vars, widget_vars>>]_vars

\* enable_animation with the unregistered key 0 has just returned on a widget
\* whose active animation is paused and has produced a frame, itself enabled
\* in place of an animation that had produced one.
C30_Witness ==
    /\ key = Some(0)
    /\ animation_is_active
    /\ is_paused
    /\ IsSome(ret)
    /\ replaced

\* ---------------------------------------------------------------- C39
\* C39: whenever next_step() of the repetition controller returns Some(step),
\* a current_step() made right after returns that same step, the last step
\* of the last pass of a Finite controller included.
C39_HandedOutIsCurrent ==
    [][(CtlNextStep /\ RepetitionAsked /\ IsSome(ctl_ret'))
         => Repeatable_current_step(rep') = ctl_ret']_vars

\* ---------------------------------------------------------------- C40
\* C40 (every step of SpecStep applies a step): applying a step never takes
\* a position from Styled back to Initial; a position the step's entries do not resolve to keeps its state and symbol,
\* a position they resolve to is Styled afterwards; and a position still
\* Initial shows, in the frame, the symbol given to Animation::new.
C40_StyledForGood ==
    [][(IsSome(applied') /\ ~panicked')
         => \A x \in DOMAIN symbol_states :
              /\ symbol_states[x].tag = "Styled" => symbol_states'[x].tag = "Styled"
              /\ x \notin targeted' => symbol_states'[x] = symbol_states[x]
              /\ x \in targeted' => symbol_states'[x].tag = "Styled"
              /\ symbol_states'[x].tag = "Initial" => ret'.v[x] = DefaultSymbol]_vars

\* The step applied last resolved to positions 1 and 2: position 0, which it
\* did not resolve to, keeps the Red an earlier step gave it.
C40_Witness ==
    /\ applied = Some(StepSpan(1))
    /\ ~panicked
    /\ targeted = {1, 2}
    /\ symbol_states[0].tag = "Styled"
    /\ symbol_states[0].symbol.foreground_color = "Red"
    /\ symbol_states[1].symbol.foreground_color = "Cyan"
    /\ ret.v[0] = symbol_states[0].symbol

\* ---------------------------------------------------------------- C38
\* C38: once a next_frame() call has returned None, every later next_frame()
\* call returns None as well, whatever pause(), unpause(), advance() calls
\* and clock ticks come in between.
C38_NoneForGood ==
    [][(NextFrame /\ nones > 0) => (~panicked' /\ ret' = None /\ nones' = 2)]_vars

\* A second None from a Manual animation that had shown a frame: returned to
\* an unpaused call made after advance(), after a pause that unpause() ended,
\* and later than that unpause().
C38_Witness ==
    /\ nones = 2
    /\ ret = None
    /\ IsManual
    /\ advancable_animation.is_advanced
    /\ ~is_paused
    /\ IsSome(shownAt)
    /\ IsSome(resumedAt)
    /\ IsSome(last_step_retrieved_at)
    /\ last_step_retrieved_at.v > resumedAt.v

\* ---------------------------------------------------------------- C32
\* C32: while a ButtonWidget is Disabled, press(), unpress(), disable() and
\* every mouse event leave its status Disabled; the only operation that
\* leaves Disabled is enable(), and it always goes to Normal.
C32_DisabledUntilEnabled ==
    [][status = "Disabled"
         => IF button_op' = "enable" THEN status' = "Normal"
            ELSE status' = "Disabled"]_vars

\* A left-button mouse-down on a disabled button, answered with no event.
C32_Witness ==
    /\ status = "Disabled"
    /\ button_op = "on_crossterm_event"
    /\ event = Some(MouseEvent("Down", "Left", 1, 1))
    /\ widget_area = Some(Rect(1, 1, 1, 1))
    /\ button_ret = None

\* ---------------------------------------------------------------- C33
\* C33: a mouse-move event changes a ButtonWidget's status only between
\* Normal and Hovered: Normal becomes Hovered with Hovered(false) when the
\* cursor is inside, Hovered becomes Normal with Unhovered when it is
\* outside, Hovered stays Hovered with Hovered(true) when it is inside; a
\* Pressed or Disabled status, and a Normal one with the cursor outside, never
\* changes.
IsMouse(ev, kind) == ev.type = "Mouse" /\ ev.kind = kind

C33_MoveHoversOnly ==
    [][(button_op' = "on_crossterm_event" /\ IsMouse(event'.v, "Moved"))
         => LET inside == contains(status, widget_area'.v,
                                   Position(event'.v.column, event'.v.row))
            IN  CASE status = "Normal" /\ inside ->
                         status' = "Hovered" /\ button_ret' = Some(Hovered(FALSE))
                  [] status = "Hovered" /\ ~inside ->
                         status' = "Normal" /\ button_ret' = Some(Unhovered)
                  [] status = "Hovered" /\ inside ->
                         status' = "Hovered" /\ button_ret' = Some(Hovered(TRUE))
                  [] OTHER -> status' = status]_vars

\* The cursor has left a hovered thin button for the first row of its
\* three-row area, which the button does not occupy.
C33_Witness ==
    /\ status = "Normal"
    /\ buttons["Hovered"] = "Thin"
    /\ button_ret = Some(Unhovered)
    /\ event = Some(MouseEvent("Moved", "None", 1, 1))
    /\ widget_area = Some(Rect(1, 1, 1, 3))

\* ---------------------------------------------------------------- C34
\* C34: on_crossterm_event returns ButtonEvent::Clicked exactly for a
\* left-button mouse-down whose position lies inside the area the button
\* occupies while the status is not Disabled, and a mouse-down never changes
\* the status.
C34_ClickedExactly ==
    [][button_op' = "on_crossterm_event"
         => LET ev == event'.v IN
            /\ (button_ret' = Some(Clicked))
                 <=> /\ IsMouse(ev, "Down")
                     /\ ev.button = "Left"
                     /\ status # "Disabled"
                     /\ contains(status, widget_area'.v, Position(ev.column, ev.row))
            /\ IsMouse(ev, "Down") => status' = status]_vars

\* A click on the third row of a pressed thick button in a four-row area.
C34_Witness ==
    /\ button_ret = Some(Clicked)
    /\ status = "Pressed"
    /\ buttons["Pressed"] = "Thick"
    /\ event = Some(MouseEvent("Down", "Left", 1, 3))
    /\ widget_area = Some(Rect(1, 1, 1, 4))

\* ---------------------------------------------------------------- C35
\* C35: with interval 0 and no reset(), the k-th render that draws (k = 1, 2,
\* ...) draws symbol number (k-1) mod N of the N-symbol cycle: the first
\* render shows the first symbol without advancing, each later render shows
\* the next one, and the render after the last symbol wraps to the first.
C35_KthRenderDrawsKth ==
    (spinner_style.interval = 0 /\ reset_phase = "Never" /\ renders >= 1)
        => LET k == (renders - 1) % Len(symbol_cycle.symbols) IN
           /\ symbol_cycle.current_index = k
           /\ IsSome(cell)
           /\ cell.v.symbol = symbol_cycle.symbols[k + 1]

\* The sixth render of the five-symbol cycle has wrapped to the first symbol.
C35_Witness ==
    /\ spinner_style.interval = 0
    /\ reset_phase = "Never"
    /\ Len(symbol_cycle.symbols) = 5
    /\ renders = 6
    /\ cell = Some([x |-> 4, symbol |-> "new"])

\* ---------------------------------------------------------------- C36
\* C36: after reset() the next render that draws shows the first symbol of
\* the cycle, as the first render of a fresh spinner does, whatever was
\* rendered before the reset.
C36_ResetRestartsCycle ==
    [][(reset_phase = "Pending" /\ renders' = renders + 1)
         => cell'.v.symbol = symbol_cycle.symbols[1]]_vars

\* ---------------------------------------------------------------- C37
\* C37: a render made before the interval has elapsed since the last symbol
\* change (the first render or the last advance, kept in last_rendered_at)
\* redraws the current symbol and changes neither the cycle index nor
\* last_rendered_at; a render made at least the interval after it draws the
\* next symbol and records its time.
C37_IntervalThrottles ==
    [][renders' = renders + 1
         => IF ~IsSome(last_rendered_at)
            THEN /\ symbol_cycle' = symbol_cycle
                 /\ last_rendered_at' = Some(clock)
                 /\ cell'.v.symbol = current_symbol(symbol_cycle)
            ELSE IF clock < last_rendered_at.v + spinner_style.interval
            THEN /\ symbol_cycle' = symbol_cycle
                 /\ last_rendered_at' = last_rendered_at
                 /\ cell'.v.symbol = current_symbol(symbol_cycle)
            ELSE /\ symbol_cycle'.current_index =
                        (symbol_cycle.current_index + 1) % Len(symbol_cycle.symbols)
                 /\ last_rendered_at' = Some(clock)
                 /\ cell'.v.symbol = current_symbol(symbol_cycle')]_vars

\* Four renders with interval 2: the second symbol appeared at time 2, and a
\* render at time 3 has redrawn it.
C37_Witness ==
    /\ spinner_style.interval = 2
    /\ reset_phase = "Never"
    /\ renders = 4
    /\ symbol_cycle.current_index = 1
    /\ last_rendered_at = Some(2)
    /\ clock = 3
    /\ cell.v.symbol = symbol_cycle.symbols[2]

\* ---------------------------------------------------------------- C31
\* C31: when the text's static styles are resolved, Target::Range(start, end)
\* styles every position from start through end inclusive: each such position
\* of the text, end among them, carries the Range entry's style unless a
\* Single or another Range entry names it too.
Names(target, x) ==
    \/ target.kind = "Single" /\ target.a = x
    \/ target.kind = "Range" /\ target.a <= x /\ x <= target.b

C31_RangeInclusive ==
    IsSome(created)
        => \A e \in symbol_styles :
             e.target.kind = "Range"
               => \A x \in (e.target.a .. e.target.b) \cap Positions :
                    (\A o \in symbol_styles \ {e} : ~Names(o.target, x))
                        => /\ x \in DOMAIN created.v
                           /\ created.v[x].foreground_color = e.style.foreground_color

====
